---- MODULE Spec2Model ----
(***************************************************************************)
(* Authentication orchestrator of the job portal server                   *)
(* (job-portal-server/routes/auth.js with config/security.js).            *)
(*                                                                         *)
(* State: the users collection, the in-memory otpStore and                *)
(* passwordResetTokens maps, the wall clock, and the request being        *)
(* answered with its response.  One action per route handler; a handler   *)
(* runs from its validation chain to its response in one step, and        *)
(* SendResponse ends the request before the next one is taken.  The       *)
(* requests are those that reached the router (the rate limiters in       *)
(* front of it keep no state the handlers read).                          *)
(*                                                                         *)
(* Further specifications over the same variables: ResetSpec takes        *)
(* reset-password apart at its awaits, MfaSpec and MfaLoginSpec add the   *)
(* routes of routes/mfa.js, RateSpec puts the rate limiters of index.js   *)
(* in front of the routes, AuditSpec adds the audit log, and LoginSpec,   *)
(* RegisterSpec and MfaSetupSpec take login, register and the MFA setup   *)
(* apart at their awaits.                                                  *)
(*                                                                         *)
(* Text is modelled as sequences of one-character strings so that the     *)
(* regular expressions, toLowerCase, split and includes of the source     *)
(* are computed character by character.                                    *)
(***************************************************************************)
EXTENDS Integers, Sequences, FiniteSets, TLC

(***************************************************************************)
(* Bounds of the model                                                     *)
(***************************************************************************)
\* the clock advances in steps of TickMs milliseconds, MaxTicks times;
\* one step of 15 minutes ends a lock exactly and passes the expiry of a
\* one-time code
TickMs == 900000

MaxTicks == 1
\* wrong-password logins are explored up to this value of loginAttempts
MaxAttempts == 6
\* number of user documents ever inserted (ObjectIds handed out)
MaxInserts == 2
\* number of reset tokens ever generated
MaxResetTokens == 1
\* number of requests of one handler that are suspended at an await at the
\* same time
MaxOverlap == 2
\* number of MFA setups, each generating its own backup codes
MaxSetups == 2
\* requests of one client in one window are explored until this many of
\* them were rejected by a rate limiter
MaxRejected == 1

\* requests are taken while the audit log holds fewer than MaxAudit events
MaxAudit == 4

(***************************************************************************)
(* Characters                                                              *)
(***************************************************************************)
LowerChars == <<"a","b","c","d","e","f","g","h","i","j","k","l","m",
                "n","o","p","q","r","s","t","u","v","w","x","y","z">>

UpperChars == <<"A","B","C","D","E","F","G","H","I","J","K","L","M",
                "N","O","P","Q","R","S","T","U","V","W","X","Y","Z">>

DigitChars == {"0","1","2","3","4","5","6","7","8","9"}

\* the character class [@$!%*?&] of the password rules
SpecialChars == {"@","$","!","%","*","?","&"}

Range(s) == {s[i] : i \in 1..Len(s)}

\* the character class [a-z]
LowerSet == Range(LowerChars)

\* the character class [A-Z]
UpperSet == Range(UpperChars)

IsLower(c) == c \in LowerSet

IsUpper(c) == c \in UpperSet

IsDigit(c) == c \in DigitChars

IsSpecial(c) == c \in SpecialChars

\* String.prototype.toLowerCase on one character
LowerChar(c) ==
    IF IsUpper(c)
    THEN LowerChars[CHOOSE i \in 1..Len(UpperChars) : UpperChars[i] = c]
    ELSE c

\* String.prototype.toLowerCase
ToLowerCase(s) == [i \in 1..Len(s) |-> LowerChar(s[i])]

\* String.prototype.includes
Includes(s, t) ==
    \E i \in 0..(Len(s) - Len(t)) :
        \A j \in 1..Len(t) : s[i + j] = t[j]

\* String.prototype.split('@')[0]: the text before the first '@'
RECURSIVE SplitAtFirst(_)
SplitAtFirst(s) ==
    IF s = <<>> \/ Head(s) = "@" THEN <<>>
    ELSE <<Head(s)>> \o SplitAtFirst(Tail(s))

(***************************************************************************)
(* Request inputs                                                          *)
(***************************************************************************)
\* request emails as typed by the client: "al@x.io", the same address
\* with an upper-case letter, and a text that is not an address
RawEmails == { <<"a","l","@","x",".","i","o">>,
               <<"A","l","@","x",".","i","o">>,
               <<"a","l">> }

\* request passwords: "Str0ng!Pw", "N3w@Passw", "Al1@bcdeF" (all five
\* checks), "Pass@word" (no digit), "PASSWORD123" (three checks),
\* "weakpass" (two), "weak" (one), "Str0ng!PwStr0ng!P" (17 characters)
Passwords == { <<"S","t","r","0","n","g","!","P","w">>,
               <<"N","3","w","@","P","a","s","s","w">>,
               <<"A","l","1","@","b","c","d","e","F">>,
               <<"P","a","s","s","@","w","o","r","d">>,
               <<"P","A","S","S","W","O","R","D","1","2","3">>,
               <<"w","e","a","k","p","a","s","s">>,
               <<"w","e","a","k">>,
               <<"S","t","r","0","n","g","!","P","w",
                 "S","t","r","0","n","g","!","P">> }

\* one-time codes generateOTP can return, and a request code that is not
\* six digits long
GenOTPs == { <<"1","1","1","1","1","1">>, <<"2","2","2","2","2","2">> }

RequestOTPs == GenOTPs \cup { <<"1","2">> }

\* captchaToken: missing from the body, or judged by the reCAPTCHA service
CaptchaOutcomes == {"ok", "failed", "missing"}

(***************************************************************************)
(* express-validator chains                                                *)
(***************************************************************************)
\* body('email').isEmail(): local part, '@', domain with a dot
IsEmail(s) ==
    /\ "@" \in Range(s)
    /\ SplitAtFirst(s) # <<>>
    /\ Len(s) > Len(SplitAtFirst(s)) + 1
    /\ "." \in {s[i] : i \in (Len(SplitAtFirst(s)) + 2)..Len(s)}

\* body('email').normalizeEmail(): lower-cases the address
NormalizeEmail(s) == ToLowerCase(s)

\* the account emails the requests can name
Emails == {NormalizeEmail(e) : e \in {r \in RawEmails : IsEmail(r)}}

\* the .custom() validator of passwordValidationRules: it reads
\* req.body.email, which is <<>> when the body carries no email
UsernameRule(value, bodyEmail) ==
    bodyEmail = <<>>
    \/ ~Includes(ToLowerCase(value), SplitAtFirst(ToLowerCase(bodyEmail)))

\* passwordValidationRules: isLength, the four look-ahead patterns, custom
PasswordRulesPass(value, bodyEmail) ==
    /\ Len(value) >= 8 /\ Len(value) <= 16
    /\ \E i \in 1..Len(value) : IsLower(value[i])
    /\ \E i \in 1..Len(value) : IsUpper(value[i])
    /\ \E i \in 1..Len(value) : IsDigit(value[i])
    /\ \E i \in 1..Len(value) : IsSpecial(value[i])
    /\ UsernameRule(value, bodyEmail)

\* body('otp').isLength({min: 6, max: 6}).isNumeric()
IsOtpFormat(otp) == Len(otp) = 6 /\ \A i \in 1..Len(otp) : IsDigit(otp[i])

(***************************************************************************)
(* config/security.js                                                      *)
(***************************************************************************)
MIN_LENGTH == 8

MAX_LENGTH == 16

PREVIOUS_PASSWORDS_COUNT == 5

\* EMAIL.OTP_EXPIRES_IN, milliseconds
OTP_EXPIRES_IN == 10 * 60 * 1000

\* the five checks of checkPasswordStrength
Checks(password) ==
    [ length    |-> Len(password) >= MIN_LENGTH /\ Len(password) <= MAX_LENGTH,
      lowercase |-> \E i \in 1..Len(password) : IsLower(password[i]),
      uppercase |-> \E i \in 1..Len(password) : IsUpper(password[i]),
      numbers   |-> \E i \in 1..Len(password) : IsDigit(password[i]),
      special   |-> \E i \in 1..Len(password) : IsSpecial(password[i]) ]

\* Object.values(checks).filter(Boolean).length
Score(password) ==
    LET checks == Checks(password) IN
    Cardinality({k \in DOMAIN checks : checks[k]})

\* the mutation: the boundary between weak and medium moved by one
checkPasswordStrengthOffByOne(password) ==
    LET score == Score(password) IN
    [ score    |-> score,
      strength |-> IF score <= 3 THEN "weak"
                   ELSE IF score < 5 THEN "medium" ELSE "strong",
      isValid  |-> score = 5 ]

checkPasswordStrength(password) ==
    LET score == Score(password) IN
    [ score    |-> score,
      strength |-> IF score < 3 THEN "weak"
                   ELSE IF score < 5 THEN "medium" ELSE "strong",
      isValid  |-> score = 5 ]

\* bcrypt.hash: a value that only comparePassword can relate to its text
hashPassword(password) == [alg |-> "bcrypt", of |-> password]

\* the mutation: every password is taken for the stored one
comparePasswordAny(password, hash) == TRUE

\* bcrypt.compare(password, hash)
comparePassword(password, hash) == hash.of = password

(***************************************************************************)
(* MongoDB document ids                                                    *)
(***************************************************************************)
\* the ObjectId the driver gives an inserted document
ObjectId(n) == [bson |-> "objectId", hex |-> n]

\* ObjectId.prototype.toString(): the hex text, a BSON string
IdToString(id) == [bson |-> "string", hex |-> id.hex]

(***************************************************************************)
(* config/security.js: MFA                                                 *)
(***************************************************************************)
\* MFA.PERIOD, seconds
MFA_PERIOD == 30

\* MFA.WINDOW
MFA_WINDOW == 2

\* MFA.BACKUP_CODES_COUNT
BACKUP_CODES_COUNT == 10

\* MFA.BACKUP_CODE_LENGTH
BACKUP_CODE_LENGTH == 8

\* String.prototype.toUpperCase on one character
UpperChar(c) ==
    IF IsLower(c)
    THEN UpperChars[CHOOSE i \in 1..Len(LowerChars) : LowerChars[i] = c]
    ELSE c

\* String.prototype.toUpperCase
ToUpperCase(s) == [i \in 1..Len(s) |-> UpperChar(s[i])]

DigitSeq == <<"0","1","2","3","4","5","6","7","8","9">>

\* crypto.randomBytes(4).toString('hex').toUpperCase(): the i-th code of
\* the g-th call of generateBackupCodes, all different
BackupCode(g, i) ==
    <<"A","B","C","D","E","F", DigitSeq[g + 1], DigitSeq[i]>>

\* generateBackupCodes()
generateBackupCodes(g) == [i \in 1..BACKUP_CODES_COUNT |-> BackupCode(g, i)]

GeneratedCodes ==
    {BackupCode(g, i) : g \in 1..MaxSetups, i \in 1..BACKUP_CODES_COUNT}

\* verifyBackupCode: backupCodes.includes(code.toUpperCase())
verifyBackupCode(code, backupCodes) ==
    \E i \in 1..Len(backupCodes) : backupCodes[i] = ToUpperCase(code)

\* Array.prototype.filter(code => code !== removed)
RECURSIVE FilterOut(_, _)
FilterOut(backupCodes, removed) ==
    IF backupCodes = <<>> THEN <<>>
    ELSE IF Head(backupCodes) # removed
    THEN <<Head(backupCodes)>> \o FilterOut(Tail(backupCodes), removed)
    ELSE FilterOut(Tail(backupCodes), removed)

\* speakeasy.generateSecret().base32
MfaSecrets == {"JBSWY3DP", "KRSXG5DT"}

\* the 6-digit code speakeasy derives from a secret and a 30-second
\* counter, kept as the pair that determines it
Totp(secret, counter) == [secret |-> secret, counter |-> counter]

(***************************************************************************)
(* State                                                                   *)
(***************************************************************************)
VARIABLES
    users,                \* the users collection, by its unique email index
    otpStore,             \* const otpStore = new Map()
    passwordResetTokens,  \* const passwordResetTokens = new Map()
    now,                  \* Date.now(), milliseconds since the server started
    insertedCount,        \* documents inserted so far (source of ObjectIds)
    resetTokenCount,      \* reset tokens generated so far
    mailbox,              \* per address, the last code the transport delivered
    wrongRun,             \* per account, wrong-password logins since the last
                          \* successful login
    session,              \* per account, the session token its client holds:
                          \* the last one a response carried
    req,                  \* the request being answered, if any
    res,                  \* its response
    inflight,             \* per connection, the request of an async handler
                          \* that is suspended at an await, with its locals
    resetLog,             \* per reset token, what its requests did so far
    mfa,                  \* per account, the MFA fields of its user document
    setupCount,           \* MFA setups made so far (source of backup codes)
    backupLog,            \* per backup code, the requests that accepted it
    hits,                 \* the stores of the rate limiters, per client key
    client,               \* the address the request being answered came from
    reached,              \* per address and window, the requests that got
                          \* past the limiters
    auditLog              \* the events logAuditEvent wrote to logs/audit.log

vars == <<users, otpStore, passwordResetTokens, now, insertedCount,
          resetTokenCount, mailbox, wrongRun, session, req, res, inflight,
          resetLog, mfa, setupCount, backupLog, hits, client, reached,
          auditLog>>

\* what the MFA router keeps
mfaState == <<mfa, setupCount, backupLog>>

\* what the rate limiters keep
rateState == <<hits, client, reached>>

\* the state the handlers of the authentication router never touch
aux == <<inflight, resetLog, mfaState, rateState, auditLog>>

\* null / undefined for times, and the first clock reading
Null == 0

StartTime == 1

\* findOne() found nothing
NoUser == [bson |-> "null"]

\* Map.prototype.get() found nothing
NoEntry == [expiry |-> Null]

\* 15 * 60 * 1000 in the login handler
LOCK_MS == 15 * 60 * 1000

\* 60 * 60 * 1000 in the forgot-password handler
RESET_EXPIRES_IN == 60 * 60 * 1000

\* newLoginAttempts >= 5
LOCK_THRESHOLD == 5

ResetTokenIds == 1..MaxResetTokens

\* crypto.randomBytes(32).toString('hex'); 0 is an empty token field
RequestTokens == 0..MaxResetTokens

\* app.use('/api/auth', authRateLimiter, authRoutes): no middleware on
\* this path assigns req.user
Undefined == [bson |-> "undefined"]

ReqUserOnAuthRouter == Undefined

\* the mutation: the lookup converts the string to an ObjectId first
FindByIdCoercing(id) ==
    IF \E e \in Emails : users[e] # NoUser /\ users[e]._id.hex = id.hex
    THEN users[CHOOSE e \in Emails :
                   users[e] # NoUser /\ users[e]._id.hex = id.hex]
    ELSE NoUser

\* collection('users').findOne({ _id: id }): BSON equality of _id
FindById(id) ==
    IF \E e \in Emails : users[e] # NoUser /\ users[e]._id = id
    THEN users[CHOOSE e \in Emails : users[e] # NoUser /\ users[e]._id = id]
    ELSE NoUser

\* JWT.EXPIRES_IN: '30d'; jsonwebtoken counts iat and exp in seconds
JWT_EXPIRES_IN == 30 * 24 * 60 * 60

\* no token in this place of the request
NoToken == [sig |-> "none"]

\* generateToken({ userId, email, role, sessionId }): jwt.sign with the
\* secret of the server, issued at now
generateToken(user) ==
    [ userId |-> IdToString(user._id), email |-> user.email,
      role |-> user.role, iat |-> now \div 1000, sig |-> "JWT.SECRET" ]

\* verifyToken: jwt.verify returns the payload of a token signed with the
\* secret and not expired, and null otherwise
verifyToken(token) ==
    IF token.sig = "JWT.SECRET" /\ now \div 1000 < token.iat + JWT_EXPIRES_IN
    THEN token ELSE NoToken

\* res.status(status).json({ success, message })
Json(status, success, message) ==
    [ status |-> status, success |-> success, message |-> message,
      errors |-> FALSE, token |-> <<>> ]

\* res.status(400).json({ success: false, errors: errors.array() })
ValidationErrors ==
    [ status |-> 400, success |-> FALSE, message |-> "",
      errors |-> TRUE, token |-> <<>> ]

\* res.json({ success: true, message, token, user })
JsonWithToken(message, token) ==
    [ status |-> 200, success |-> TRUE, message |-> message,
      errors |-> FALSE, token |-> <<token>> ]

\* the places of a request that can carry a session token:
\* Authorization: Bearer <token>, the token cookie, ?token=<token>
Credentials(authorization, cookie, query) ==
    [ authorization |-> authorization, cookie |-> cookie, query |-> query ]

NoCredentials == Credentials(NoToken, NoToken, NoToken)

\* the request as the handler sees it after the sanitizers
Request(op, email, password, currentPassword, otp, token, captcha, delivery) ==
    [ op |-> op, email |-> email, password |-> password,
      currentPassword |-> currentPassword, otp |-> otp, token |-> token,
      captcha |-> captcha, delivery |-> delivery,
      credentials |-> NoCredentials ]

\* an array field of a document
Array(items) == [array |-> items]

\* no mfaSecret field
NoSecret == ""

\* a user document as registration writes it has no MFA field; mfaEnabled
\* and mfaSetupPending are kept as what the handlers test, their truthiness
NoMfa ==
    [ mfaEnabled |-> FALSE, mfaSetupPending |-> FALSE, mfaSecret |-> NoSecret,
      mfaBackupCodes |-> Undefined ]

\* req.ip of the clients
Ips == {"203.0.113.7", "198.51.100.9"}

\* no request is being answered
NoClient == ""

\* a key the store of a limiter has not seen
NoHits == [count |-> 0, resetTime |-> 0]

\* no request of the address got past the limiters yet
NoneReached == [count |-> 0, window |-> 0 - 1]

\* the connections on which overlapping requests arrive
Connections == 1..MaxOverlap

\* no request is suspended on the connection
NoFlight == [at |-> "none"]

\* no request is being answered
IdleRequest ==
    Request("none", <<>>, <<>>, <<>>, <<>>, 0, "missing", "none")

IdleResponse == Json(0, FALSE, "")

Idle == req = IdleRequest

Init ==
    /\ users = [e \in Emails |-> NoUser]
    /\ otpStore = [e \in Emails |-> NoEntry]
    /\ passwordResetTokens = [t \in ResetTokenIds |-> NoEntry]
    /\ now = StartTime
    /\ insertedCount = 0
    /\ resetTokenCount = 0
    /\ mailbox = [e \in Emails |-> <<>>]
    /\ wrongRun = [e \in Emails |-> 0]
    /\ session = [e \in Emails |-> NoToken]
    /\ req = IdleRequest
    /\ res = IdleResponse
    /\ inflight = [c \in Connections |-> NoFlight]
    /\ resetLog = [t \in ResetTokenIds |-> [updates |-> 0, successes |-> 0]]
    /\ mfa = [e \in Emails |-> NoMfa]
    /\ setupCount = 0
    /\ backupLog = [code \in GeneratedCodes |-> 0]
    /\ hits = [global |-> [ip \in Ips |-> NoHits],
               auth |-> [ip \in Ips |-> NoHits]]
    /\ client = NoClient
    /\ reached = [auth |-> [ip \in Ips |-> NoneReached],
                  api |-> [ip \in Ips |-> NoneReached]]
    /\ auditLog = <<>>

(***************************************************************************)
(* router.post('/register')                                                *)
(***************************************************************************)
\* collection('users').insertOne(user)
InsertOne(collection, user) == [collection EXCEPT ![user.email] = user]

\* the mutation: the document is left in place
DeleteOneSkipped(collection, user) == collection

\* collection('users').deleteOne({ _id: result.insertedId })
DeleteOne(collection, user) ==
    [e \in DOMAIN collection |->
        IF collection[e] # NoUser /\ collection[e]._id = user._id
        THEN NoUser ELSE collection[e]]

Register(rawEmail, password, role, captcha, otp, deliveryOk) ==
    LET email == NormalizeEmail(rawEmail)
        valid == /\ IsEmail(rawEmail)
                 /\ role \in {"jobseeker", "employer"}
                 /\ captcha # "missing"
                 /\ PasswordRulesPass(password, email)
        otpExpiry == now + OTP_EXPIRES_IN
        user == [ _id |-> ObjectId(insertedCount + 1),
                  email |-> email,
                  role |-> role,
                  password |-> hashPassword(password),
                  isVerified |-> FALSE,
                  verificationOTP |-> otp,
                  otpExpiry |-> otpExpiry,
                  passwordHistory |-> <<hashPassword(password)>>,
                  loginAttempts |-> 0,
                  lockUntil |-> Null,
                  lastLogin |-> Null ]
        rejected == ~valid \/ captcha # "ok"
                  \/ ~checkPasswordStrength(password).isValid
                  \/ users[email] # NoUser
    IN
    /\ req' = Request("register", IF IsEmail(rawEmail) THEN email ELSE rawEmail,
                      password, <<>>, <<>>, 0, captcha,
                      IF rejected THEN "none"
                      ELSE IF deliveryOk THEN "ok" ELSE "failed")
    /\ UNCHANGED <<passwordResetTokens, now, resetTokenCount, wrongRun,
                   session>>
    /\ IF ~valid
       THEN /\ res' = ValidationErrors
            /\ UNCHANGED <<users, otpStore, insertedCount, mailbox>>
       ELSE IF captcha # "ok"
       THEN /\ res' = Json(400, FALSE, "reCAPTCHA verification failed")
            /\ UNCHANGED <<users, otpStore, insertedCount, mailbox>>
       ELSE IF ~checkPasswordStrength(password).isValid
       THEN /\ res' = Json(400, FALSE,
                           "Password does not meet security requirements")
            /\ UNCHANGED <<users, otpStore, insertedCount, mailbox>>
       ELSE IF users[email] # NoUser
       THEN /\ res' = Json(400, FALSE, "User already exists")
            /\ UNCHANGED <<users, otpStore, insertedCount, mailbox>>
       ELSE /\ insertedCount < MaxInserts
            /\ otpStore' = [otpStore EXCEPT
                              ![email] = [otp |-> otp, expiry |-> otpExpiry,
                                          attempts |-> 0]]
            /\ insertedCount' = insertedCount + 1
            /\ IF deliveryOk
               THEN /\ users' = InsertOne(users, user)
                    /\ mailbox' = [mailbox EXCEPT ![email] = otp]
                    /\ res' = Json(201, TRUE,
                         "Registration successful. Please check your email for verification.")
               ELSE \* insertOne, then deleteOne({ _id: result.insertedId })
                    /\ users' = DeleteOne(InsertOne(users, user), user)
                    /\ UNCHANGED mailbox
                    /\ res' = Json(500, FALSE,
                                   "Failed to send verification email")

(***************************************************************************)
(* router.post('/verify-email')                                            *)
(***************************************************************************)
\* the mutation: the expiry of the code is not looked at
OtpRejectedIgnoringExpiry(storedOTP, otp) ==
    storedOTP = NoEntry \/ storedOTP.otp # otp

\* !storedOTP || storedOTP.otp !== otp || Date.now() > storedOTP.expiry
OtpRejected(storedOTP, otp) ==
    storedOTP = NoEntry \/ storedOTP.otp # otp \/ now > storedOTP.expiry

\* the mutation: a rejected submission uses the stored code up
OtpStoreAfterRejectionConsumed(email) == [otpStore EXCEPT ![email] = NoEntry]

\* the rejection returns without touching otpStore: the entry keeps its
\* code, its expiry and its attempts: 0
OtpStoreAfterRejection(email) == otpStore

\* the mutation: the code stays in the store
OtpStoreDeleteSkipped(email) == otpStore

\* otpStore.delete(email)
OtpStoreDelete(email) == [otpStore EXCEPT ![email] = NoEntry]

VerifyEmail(rawEmail, otp) ==
    LET email == NormalizeEmail(rawEmail)
        valid == IsEmail(rawEmail) /\ IsOtpFormat(otp)
        user == users[email]
        storedOTP == otpStore[email]
    IN
    /\ req' = Request("verify-email",
                      IF IsEmail(rawEmail) THEN email ELSE rawEmail,
                      <<>>, <<>>, otp, 0, "missing", "none")
    /\ UNCHANGED <<passwordResetTokens, now, insertedCount, resetTokenCount,
                   mailbox, wrongRun>>
    /\ IF ~valid
       THEN /\ res' = ValidationErrors
            /\ UNCHANGED <<users, otpStore, session>>
       ELSE IF user = NoUser
       THEN /\ res' = Json(404, FALSE, "User not found")
            /\ UNCHANGED <<users, otpStore, session>>
       ELSE IF user.isVerified
       THEN /\ res' = Json(400, FALSE, "Email already verified")
            /\ UNCHANGED <<users, otpStore, session>>
       ELSE IF OtpRejected(storedOTP, otp)
       THEN /\ res' = Json(400, FALSE, "Invalid or expired OTP")
            /\ otpStore' = OtpStoreAfterRejection(email)
            /\ UNCHANGED <<users, session>>
       ELSE /\ users' = [users EXCEPT
                           ![email] = [user EXCEPT !.isVerified = TRUE,
                                                   !.verificationOTP = <<>>,
                                                   !.otpExpiry = Null]]
            /\ otpStore' = OtpStoreDelete(email)
            /\ res' = JsonWithToken("Email verified successfully",
                                    generateToken(user))
            /\ session' = [session EXCEPT ![email] = generateToken(user)]

(***************************************************************************)
(* router.post('/login')                                                   *)
(***************************************************************************)
\* passwords a login request can carry: the registered ones, a wrong one
\* and an empty field
LoginPasswords ==
    {p \in Passwords : checkPasswordStrength(p).isValid} \cup { <<>> }

\* res.status(401).json(...) when findOne found no user
UserAbsentResponse == Json(401, FALSE, "Invalid credentials")

\* the mutation: the message names the cause
PasswordMismatchResponseTelling == Json(401, FALSE, "Incorrect password")

\* res.status(401).json(...) when comparePassword returned false
PasswordMismatchResponse == Json(401, FALSE, "Invalid credentials")

\* the mutation: only the failure that reaches the threshold locks
LockUntilAfterFifthOnly(newLoginAttempts) ==
    IF newLoginAttempts = LOCK_THRESHOLD THEN now + LOCK_MS ELSE Null

\* the mutation: the account is locked one failure later
LockUntilAfterLate(newLoginAttempts) ==
    IF newLoginAttempts >= LOCK_THRESHOLD + 1 THEN now + LOCK_MS ELSE Null

\* newLoginAttempts >= 5 ? Date.now() + (15 * 60 * 1000) : null
LockUntilAfter(newLoginAttempts) ==
    IF newLoginAttempts >= LOCK_THRESHOLD THEN now + LOCK_MS ELSE Null

\* the mutation: the account is still locked at the instant lockUntil
IsLockedUntilIncluded(user) == user.lockUntil # Null /\ user.lockUntil >= now

\* the mutation: the clock is not consulted, a lock never ends by itself
IsLockedIgnoringClock(user) == user.lockUntil # Null

\* user.lockUntil && user.lockUntil > Date.now()
IsLocked(user) == user.lockUntil # Null /\ user.lockUntil > now

Login(rawEmail, password, captcha) ==
    LET email == NormalizeEmail(rawEmail)
        valid == IsEmail(rawEmail) /\ password # <<>> /\ captcha # "missing"
        user == users[email]
        newLoginAttempts == user.loginAttempts + 1
    IN
    /\ req' = Request("login", IF IsEmail(rawEmail) THEN email ELSE rawEmail,
                      password, <<>>, <<>>, 0, captcha, "none")
    /\ UNCHANGED <<otpStore, passwordResetTokens, now, insertedCount,
                   resetTokenCount, mailbox>>
    /\ IF ~valid
       THEN /\ res' = ValidationErrors
            /\ UNCHANGED <<users, wrongRun, session>>
       ELSE IF captcha # "ok"
       THEN /\ res' = Json(400, FALSE, "reCAPTCHA verification failed")
            /\ UNCHANGED <<users, wrongRun, session>>
       ELSE IF user = NoUser
       THEN /\ res' = UserAbsentResponse
            /\ UNCHANGED <<users, wrongRun, session>>
       ELSE
       /\ session' =
            IF ~IsLocked(user) /\ user.isVerified
               /\ comparePassword(password, user.password)
            THEN [session EXCEPT ![email] = generateToken(user)]
            ELSE session
       /\ wrongRun' =
            IF ~user.isVerified THEN wrongRun
            ELSE IF ~comparePassword(password, user.password)
            THEN [wrongRun EXCEPT ![email] =
                     IF @ > MaxAttempts THEN @ ELSE @ + 1]
            ELSE IF IsLocked(user) THEN wrongRun
            ELSE [wrongRun EXCEPT ![email] = 0]
       /\ IF IsLocked(user)
          THEN /\ res' = Json(423, FALSE,
                 "Account is temporarily locked due to too many failed attempts")
               /\ UNCHANGED users
          ELSE IF ~user.isVerified
          THEN /\ res' = Json(401, FALSE,
                              "Please verify your email before logging in")
               /\ UNCHANGED users
          ELSE IF ~comparePassword(password, user.password)
          THEN /\ user.loginAttempts < MaxAttempts
               /\ users' = [users EXCEPT
                    ![email] = [user EXCEPT
                        !.loginAttempts = newLoginAttempts,
                        !.lockUntil = LockUntilAfter(newLoginAttempts)]]
               /\ res' = PasswordMismatchResponse
          ELSE /\ users' = [users EXCEPT
                    ![email] = [user EXCEPT !.loginAttempts = 0,
                                            !.lockUntil = Null,
                                            !.lastLogin = now]]
               /\ res' = JsonWithToken("Login successful", generateToken(user))

(***************************************************************************)
(* router.post('/forgot-password')                                         *)
(***************************************************************************)
ForgotPassword(rawEmail, deliveryOk) ==
    LET email == NormalizeEmail(rawEmail)
        user == users[email]
        resetToken == resetTokenCount + 1
    IN
    /\ req' = Request("forgot-password",
                      IF IsEmail(rawEmail) THEN email ELSE rawEmail,
                      <<>>, <<>>, <<>>, 0, "missing",
                      IF ~IsEmail(rawEmail) \/ user = NoUser THEN "none"
                      ELSE IF deliveryOk THEN "ok" ELSE "failed")
    /\ UNCHANGED <<users, otpStore, now, insertedCount, mailbox, wrongRun,
                   session>>
    /\ IF ~IsEmail(rawEmail)
       THEN /\ res' = ValidationErrors
            /\ UNCHANGED <<passwordResetTokens, resetTokenCount>>
       ELSE IF user = NoUser
       THEN /\ res' = Json(200, TRUE,
              "If an account with this email exists, a password reset link has been sent")
            /\ UNCHANGED <<passwordResetTokens, resetTokenCount>>
       ELSE /\ resetTokenCount < MaxResetTokens
            /\ resetTokenCount' = resetToken
            /\ passwordResetTokens' =
                 [passwordResetTokens EXCEPT
                    ![resetToken] = [ userId |-> IdToString(user._id),
                                      email |-> user.email,
                                      expiry |-> now + RESET_EXPIRES_IN ]]
            /\ IF deliveryOk
               THEN res' = Json(200, TRUE,
                                "Password reset link sent to your email")
               ELSE res' = Json(500, FALSE,
                                "Failed to send password reset email")

(***************************************************************************)
(* router.post('/validate-reset-token')                                    *)
(***************************************************************************)
\* passwordResetTokens.get(token)
GetResetData(token) ==
    IF token \in ResetTokenIds THEN passwordResetTokens[token] ELSE NoEntry

ValidateResetToken(token) ==
    LET resetData == GetResetData(token) IN
    /\ req' = Request("validate-reset-token", <<>>, <<>>, <<>>, <<>>,
                      token, "missing", "none")
    /\ UNCHANGED <<users, otpStore, passwordResetTokens, now, insertedCount,
                   resetTokenCount, mailbox, wrongRun, session>>
    /\ IF token = 0
       THEN res' = ValidationErrors
       ELSE IF resetData = NoEntry \/ now > resetData.expiry
       THEN res' = Json(200, FALSE, "Invalid or expired reset token")
       ELSE res' = Json(200, TRUE, "Reset token is valid")

(***************************************************************************)
(* router.post('/reset-password')                                          *)
(***************************************************************************)
\* req.body.email of a body that is not required to carry one
BodyEmails == { <<>> } \cup {r \in RawEmails : IsEmail(r)}

\* for (const historyItem of passwordHistory) comparePassword(...)
InHistory(password, passwordHistory) ==
    \E i \in 1..Len(passwordHistory) :
        comparePassword(password, passwordHistory[i])

\* the mutation: the old entries are kept without the slice
NewPasswordHistoryUntrimmed(hashedPassword, passwordHistory) ==
    <<hashedPassword>> \o passwordHistory

\* [ new, ...passwordHistory.slice(0, PREVIOUS_PASSWORDS_COUNT - 1) ]
NewPasswordHistory(hashedPassword, passwordHistory) ==
    <<hashedPassword>> \o
    SubSeq(passwordHistory, 1,
           IF Len(passwordHistory) < PREVIOUS_PASSWORDS_COUNT - 1
           THEN Len(passwordHistory) ELSE PREVIOUS_PASSWORDS_COUNT - 1)

ResetPassword(token, password, bodyEmail) ==
    LET valid == token # 0 /\ PasswordRulesPass(password, bodyEmail)
        resetData == GetResetData(token)
        user == FindById(resetData.userId)
        hashedPassword == hashPassword(password)
    IN
    /\ req' = Request("reset-password", bodyEmail, password, <<>>, <<>>,
                      token, "missing", "none")
    /\ UNCHANGED <<otpStore, now, insertedCount, resetTokenCount, mailbox,
                   wrongRun, session>>
    /\ IF ~valid
       THEN /\ res' = ValidationErrors
            /\ UNCHANGED <<users, passwordResetTokens>>
       ELSE IF ~checkPasswordStrength(password).isValid
       THEN /\ res' = Json(400, FALSE,
                           "Password does not meet security requirements")
            /\ UNCHANGED <<users, passwordResetTokens>>
       ELSE IF resetData = NoEntry \/ now > resetData.expiry
       THEN /\ res' = Json(400, FALSE, "Invalid or expired reset token")
            /\ UNCHANGED <<users, passwordResetTokens>>
       ELSE IF user = NoUser
       THEN /\ res' = Json(404, FALSE, "User not found")
            /\ UNCHANGED <<users, passwordResetTokens>>
       ELSE IF InHistory(password, user.passwordHistory)
       THEN /\ res' = Json(400, FALSE,
                   "Password cannot be the same as your previous passwords")
            /\ UNCHANGED <<users, passwordResetTokens>>
       ELSE /\ users' = [users EXCEPT
                 ![user.email] = [user EXCEPT
                     !.password = hashedPassword,
                     !.passwordHistory =
                         NewPasswordHistory(hashedPassword,
                                            user.passwordHistory)]]
            /\ passwordResetTokens' =
                 [passwordResetTokens EXCEPT ![token] = NoEntry]
            /\ res' = Json(200, TRUE, "Password reset successful")

(***************************************************************************)
(* router.post('/change-password')                                         *)
(***************************************************************************)
ChangePasswordHandler(reqUser, credentials, currentPassword, password, bodyEmail) ==
    LET valid == currentPassword # <<>>
                 /\ PasswordRulesPass(password, bodyEmail)
        user == FindById(reqUser.userId)
        hashedPassword == hashPassword(password)
    IN
    /\ req' = [Request("change-password", bodyEmail, password,
                       currentPassword, <<>>, 0, "missing", "none")
                 EXCEPT !.credentials = credentials]
    /\ UNCHANGED <<otpStore, passwordResetTokens, now, insertedCount,
                   resetTokenCount, mailbox, wrongRun, session>>
    /\ IF ~valid
       THEN /\ res' = ValidationErrors
            /\ UNCHANGED users
       ELSE IF reqUser = Undefined
       THEN \* req.user.userId throws a TypeError, caught by the handler
            /\ res' = Json(500, FALSE, "Password change failed")
            /\ UNCHANGED users
       ELSE IF ~checkPasswordStrength(password).isValid
       THEN /\ res' = Json(400, FALSE,
                           "Password does not meet security requirements")
            /\ UNCHANGED users
       ELSE IF user = NoUser
       THEN /\ res' = Json(404, FALSE, "User not found")
            /\ UNCHANGED users
       ELSE IF ~comparePassword(currentPassword, user.password)
       THEN /\ res' = Json(401, FALSE, "Current password is incorrect")
            /\ UNCHANGED users
       ELSE IF comparePassword(password, user.password)
       THEN /\ res' = Json(400, FALSE,
                   "New password must be different from current password")
            /\ UNCHANGED users
       ELSE IF InHistory(password, user.passwordHistory)
       THEN /\ res' = Json(400, FALSE,
                   "Password cannot be the same as your previous passwords")
            /\ UNCHANGED users
       ELSE /\ users' = [users EXCEPT
                 ![user.email] = [user EXCEPT
                     !.password = hashedPassword,
                     !.passwordHistory =
                         NewPasswordHistory(hashedPassword,
                                            user.passwordHistory)]]
            /\ res' = Json(200, TRUE, "Password changed successfully")

\* the route as mounted: app.use('/api/auth', authRateLimiter, authRoutes)
ChangePassword(credentials, currentPassword, password, bodyEmail) ==
    ChangePasswordHandler(ReqUserOnAuthRouter, credentials, currentPassword,
                          password, bodyEmail)

(***************************************************************************)
(* middleware/auth.js: authenticateUser                                    *)
(***************************************************************************)
\* the application mounts no cookie parser, so req.cookies is undefined
ReqCookies(credentials) == Undefined

\* header, else cookie, else query parameter
TokenOf(credentials) ==
    LET cookies == ReqCookies(credentials)
        fromHeader == credentials.authorization
        fromCookie == IF fromHeader = NoToken /\ cookies # Undefined
                         /\ cookies.token # NoToken
                      THEN cookies.token ELSE fromHeader
    IN IF fromCookie = NoToken THEN credentials.query ELSE fromCookie

\* the mutation: a request without token is refused as forbidden
AuthenticationRequiredForbidden == Json(403, FALSE, "Authentication required")

\* if (!token) return res.status(401).json(...)
AuthenticationRequired == Json(401, FALSE, "Authentication required")

\* the outcome of the middleware: next() with req.user, or a response
authenticateUser(credentials) ==
    LET token == TokenOf(credentials)
        decoded == verifyToken(token)
        user == FindById(decoded.userId)
    IN
    IF token = NoToken
    THEN [next |-> FALSE, res |-> AuthenticationRequired]
    ELSE IF decoded = NoToken
    THEN [next |-> FALSE, res |-> Json(401, FALSE, "Invalid or expired token")]
    ELSE IF user = NoUser
    THEN [next |-> FALSE, res |-> Json(401, FALSE, "User not found")]
    ELSE IF ~user.isVerified
    THEN [next |-> FALSE, res |-> Json(401, FALSE, "Email not verified")]
    ELSE [next |-> TRUE,
          user |-> [userId |-> IdToString(user._id), email |-> user.email,
                    role |-> user.role]]

(***************************************************************************)
(* app.get('/api/jobs/user/:email', authenticateUser, handler)             *)
(***************************************************************************)
\* res.json(jobs) of the handler behind the middleware
JobsOfUserResponse == Json(200, TRUE, "jobs")

JobsOfUser(credentials) ==
    LET auth == authenticateUser(credentials) IN
    /\ req' = [Request("jobs-of-user", <<>>, <<>>, <<>>, <<>>, 0, "missing",
                       "none")
                 EXCEPT !.credentials = credentials]
    /\ res' = IF auth.next THEN JobsOfUserResponse ELSE auth.res
    /\ UNCHANGED <<users, otpStore, passwordResetTokens, now, insertedCount,
                   resetTokenCount, mailbox, wrongRun, session>>

(***************************************************************************)
(* router.post('/logout')                                                  *)
(***************************************************************************)
\* the mutation: logout clears the one-time codes and the reset tokens
LogoutStoresCleared(reqUser) ==
    <<users, [e \in Emails |-> NoEntry], [t \in ResetTokenIds |-> NoEntry]>>

\* the handler calls neither req.db nor the two maps; with a req.user it
\* would write an audit event
LogoutStores(reqUser) == <<users, otpStore, passwordResetTokens>>

LogoutHandler(reqUser, credentials) ==
    /\ req' = [Request("logout", <<>>, <<>>, <<>>, <<>>, 0, "missing", "none")
                 EXCEPT !.credentials = credentials]
    /\ res' = Json(200, TRUE, "Logout successful")
    /\ users' = LogoutStores(reqUser)[1]
    /\ otpStore' = LogoutStores(reqUser)[2]
    /\ passwordResetTokens' = LogoutStores(reqUser)[3]
    /\ UNCHANGED <<now, insertedCount, resetTokenCount, mailbox, wrongRun,
                   session>>

Logout(credentials) == LogoutHandler(ReqUserOnAuthRouter, credentials)

(***************************************************************************)
(* The clock                                                               *)
(***************************************************************************)
Tick ==
    /\ Idle
    /\ now + TickMs <= StartTime + MaxTicks * TickMs
    /\ now' = now + TickMs
    /\ UNCHANGED <<users, otpStore, passwordResetTokens, insertedCount,
                   resetTokenCount, mailbox, wrongRun, session, req, res>>
    /\ UNCHANGED aux

(***************************************************************************)
(* Specification                                                           *)
(***************************************************************************)
\* Requests are the well-formed request with every email and password,
\* and the well-formed request with one field changed at a time.
DefaultEmail == <<"a","l","@","x",".","i","o">>

DefaultPassword == <<"S","t","r","0","n","g","!","P","w">>

DefaultOTP == <<"1","1","1","1","1","1">>

RegisterRequests ==
    { [rawEmail |-> e, password |-> p, role |-> "jobseeker",
       captcha |-> "ok", otp |-> o, deliveryOk |-> d] :
         e \in {r \in RawEmails : IsEmail(r)},
         p \in {q \in Passwords : checkPasswordStrength(q).isValid},
         o \in GenOTPs, d \in BOOLEAN }
    \cup
    { [rawEmail |-> e, password |-> p, role |-> "jobseeker",
       captcha |-> "ok", otp |-> DefaultOTP, deliveryOk |-> TRUE] :
         e \in RawEmails, p \in Passwords }
    \cup
    { [rawEmail |-> DefaultEmail, password |-> DefaultPassword, role |-> r,
       captcha |-> c, otp |-> DefaultOTP, deliveryOk |-> TRUE] :
         r \in {"employer", "admin"}, c \in {"ok"} }
    \cup
    { [rawEmail |-> DefaultEmail, password |-> DefaultPassword,
       role |-> "jobseeker", captcha |-> c, otp |-> DefaultOTP,
       deliveryOk |-> TRUE] : c \in CaptchaOutcomes }

DoRegister ==
    /\ Idle
    /\ UNCHANGED aux
    /\ \E r \in RegisterRequests :
        Register(r.rawEmail, r.password, r.role, r.captcha, r.otp,
                 r.deliveryOk)

DoVerifyEmail ==
    /\ Idle
    /\ UNCHANGED aux
    /\ \E rawEmail \in RawEmails, otp \in RequestOTPs :
        VerifyEmail(rawEmail, otp)

LoginRequests ==
    { [rawEmail |-> e, password |-> p, captcha |-> "ok"] :
         e \in RawEmails, p \in LoginPasswords }
    \cup
    { [rawEmail |-> DefaultEmail, password |-> DefaultPassword,
       captcha |-> c] : c \in CaptchaOutcomes }

DoLogin ==
    /\ Idle
    /\ UNCHANGED aux
    /\ \E r \in LoginRequests : Login(r.rawEmail, r.password, r.captcha)

DoForgotPassword ==
    /\ Idle
    /\ UNCHANGED aux
    /\ \E rawEmail \in RawEmails, deliveryOk \in BOOLEAN :
        ForgotPassword(rawEmail, deliveryOk)

DoValidateResetToken ==
    /\ Idle
    /\ UNCHANGED aux
    /\ \E token \in RequestTokens : ValidateResetToken(token)

ResetRequests ==
    { [token |-> t, password |-> p, bodyEmail |-> <<>>] :
         t \in RequestTokens, p \in Passwords }
    \cup
    { [token |-> t, password |-> p, bodyEmail |-> e] :
         t \in RequestTokens \ {0}, e \in BodyEmails,
         p \in {q \in Passwords : checkPasswordStrength(q).isValid} }

DoResetPassword ==
    /\ Idle
    /\ UNCHANGED aux
    /\ \E r \in ResetRequests : ResetPassword(r.token, r.password, r.bodyEmail)

ChangeRequests ==
    { [currentPassword |-> DefaultPassword, password |-> p,
       bodyEmail |-> <<>>] : p \in Passwords }
    \cup
    { [currentPassword |-> c, password |-> p, bodyEmail |-> e] :
         c \in {DefaultPassword, <<>>}, e \in BodyEmails,
         p \in {q \in Passwords : checkPasswordStrength(q).isValid} }

\* 'Bearer invalid-token': a token the secret of the server did not sign
InvalidToken == [sig |-> "invalid"]

\* the tokens a client can send: none, the one its account was given, or
\* one that is not signed by the server
ClientTokens == {NoToken, InvalidToken} \cup {session[e] : e \in Emails}

\* a request without token, or with the session token as bearer
BearerChoices ==
    {Credentials(t, NoToken, NoToken) :
        t \in {NoToken} \cup {session[e] : e \in Emails}}

DoChangePassword ==
    /\ Idle
    /\ UNCHANGED aux
    /\ \E r \in ChangeRequests, c \in BearerChoices :
        ChangePassword(c, r.currentPassword, r.password, r.bodyEmail)

DoJobsOfUser ==
    /\ Idle
    /\ UNCHANGED aux
    /\ \E a, c, q \in ClientTokens : JobsOfUser(Credentials(a, c, q))

DoLogout ==
    /\ Idle
    /\ UNCHANGED aux
    /\ \E c \in BearerChoices : Logout(c)

\* res.json(...) has written the response and the request is over
SendResponse ==
    /\ ~Idle
    /\ req' = IdleRequest
    /\ res' = IdleResponse
    /\ UNCHANGED <<users, otpStore, passwordResetTokens, now, insertedCount,
                   resetTokenCount, mailbox, wrongRun, session>>
    /\ UNCHANGED aux

Next ==
    \/ DoRegister
    \/ DoVerifyEmail
    \/ DoLogin
    \/ DoForgotPassword
    \/ DoValidateResetToken
    \/ DoResetPassword
    \/ DoChangePassword
    \/ DoJobsOfUser
    \/ DoLogout
    \/ SendResponse
    \/ Tick

Spec == Init /\ [][Next]_vars

(***************************************************************************)
(* router.post('/reset-password') between its awaits                       *)
(*                                                                         *)
(* The handler is an async function: it runs from the validation chain to  *)
(* the findOne call, is resumed with the document, runs (bcrypt is a pure  *)
(* computation on its locals) to the updateOne call, and is resumed to     *)
(* delete the token and respond.  Other requests run between the resumes.  *)
(***************************************************************************)
\* the handler has called res.json(...)
Answered(token, response) ==
    [at |-> "done", token |-> token, res |-> response]

\* from the validation chain to await findOne({ _id: resetData.userId })
ResetPasswordReceive(c, token, password, bodyEmail) ==
    LET valid == token # 0 /\ PasswordRulesPass(password, bodyEmail)
        resetData == GetResetData(token)
    IN
    /\ inflight[c] = NoFlight
    /\ inflight' = [inflight EXCEPT ![c] =
         IF ~valid
         THEN Answered(token, ValidationErrors)
         ELSE IF ~checkPasswordStrength(password).isValid
         THEN Answered(token, Json(400, FALSE,
                  "Password does not meet security requirements"))
         ELSE IF resetData = NoEntry \/ now > resetData.expiry
         THEN Answered(token,
                       Json(400, FALSE, "Invalid or expired reset token"))
         ELSE [at |-> "findOne", token |-> token, password |-> password,
               resetData |-> resetData]]
    /\ UNCHANGED <<users, otpStore, passwordResetTokens, now, insertedCount,
                   resetTokenCount, mailbox, wrongRun, session, req, res,
                   resetLog, auditLog, mfaState, rateState>>

\* collection('users').updateOne({ _id: id }, { $set: { password,
\* passwordHistory } })
UpdatePasswordById(id, hashedPassword, newPasswordHistory) ==
    [e \in Emails |->
        IF users[e] # NoUser /\ users[e]._id = id
        THEN [users[e] EXCEPT !.password = hashedPassword,
                              !.passwordHistory = newPasswordHistory]
        ELSE users[e]]

\* the event loop resumes the handler after the await it is suspended at
ResetPasswordResume(c) ==
    LET f == inflight[c]
        user == FindById(f.resetData.userId)
        hashedPassword == hashPassword(f.password)
    IN
    /\ f.at \in {"findOne", "updateOne", "updated"}
    /\ UNCHANGED <<otpStore, now, insertedCount, resetTokenCount, mailbox,
                   wrongRun, session, req, res, mfaState, rateState, auditLog>>
    /\ IF f.at = "findOne"
       THEN /\ inflight' = [inflight EXCEPT ![c] =
                 IF user = NoUser
                 THEN Answered(f.token, Json(404, FALSE, "User not found"))
                 ELSE IF InHistory(f.password, user.passwordHistory)
                 THEN Answered(f.token, Json(400, FALSE,
                   "Password cannot be the same as your previous passwords"))
                 ELSE [at |-> "updateOne", token |-> f.token,
                       password |-> f.password, user |-> user]]
            /\ UNCHANGED <<users, passwordResetTokens, resetLog>>
       ELSE IF f.at = "updateOne"
       THEN /\ users' = UpdatePasswordById(f.user._id, hashedPassword,
                            NewPasswordHistory(hashedPassword,
                                               f.user.passwordHistory))
            /\ inflight' = [inflight EXCEPT ![c] =
                 [at |-> "updated", token |-> f.token]]
            /\ resetLog' = [resetLog EXCEPT ![f.token].updates = @ + 1]
            /\ UNCHANGED passwordResetTokens
       ELSE /\ passwordResetTokens' =
                 [passwordResetTokens EXCEPT ![f.token] = NoEntry]
            /\ inflight' = [inflight EXCEPT ![c] =
                 Answered(f.token,
                          Json(200, TRUE, "Password reset successful"))]
            /\ resetLog' = [resetLog EXCEPT ![f.token].successes = @ + 1]
            /\ UNCHANGED users

\* the response has left and the connection takes its next request
ResetPasswordSent(c) ==
    /\ inflight[c].at = "done"
    /\ inflight' = [inflight EXCEPT ![c] = NoFlight]
    /\ UNCHANGED <<users, otpStore, passwordResetTokens, now, insertedCount,
                   resetTokenCount, mailbox, wrongRun, session, req, res,
                   resetLog, auditLog, mfaState, rateState>>

\* the accounts and tokens the overlapping requests work on come from the
\* well-formed registration and forgot-password requests
ResetRegister ==
    /\ Idle
    /\ UNCHANGED aux
    /\ \E p \in {DefaultPassword}, o \in {DefaultOTP} :
        Register(DefaultEmail, p, "jobseeker", "ok", o, TRUE)

ResetForgotPassword ==
    /\ Idle
    /\ UNCHANGED aux
    /\ \E deliveryOk \in BOOLEAN : ForgotPassword(DefaultEmail, deliveryOk)

\* "N3w@Passw", a password the account never had
FreshPassword == <<"N","3","w","@","P","a","s","s","w">>

ResetReceive ==
    \E c \in Connections, token \in RequestTokens,
       password \in {DefaultPassword, FreshPassword, <<"w","e","a","k">>} :
        ResetPasswordReceive(c, token, password, <<>>)

ResetResume == \E c \in Connections : ResetPasswordResume(c)

ResetSent == \E c \in Connections : ResetPasswordSent(c)

ResetNext ==
    \/ ResetRegister
    \/ ResetForgotPassword
    \/ ResetReceive
    \/ ResetResume
    \/ ResetSent
    \/ SendResponse
    \/ Tick

ResetSpec == Init /\ [][ResetNext]_vars

(***************************************************************************)
(* routes/mfa.js                                                           *)
(*                                                                         *)
(* setup, verify-setup and disable are written behind authenticateUser    *)
(* and read the caller's document with findOne({ _id: req.user.userId }). *)
(* As mounted, no request passes that middleware and no string id finds   *)
(* a document, so these three handlers are taken from the point where     *)
(* they hold the document of the caller: what they do with it and write   *)
(* to it is the code of the router.  verify-backup looks the account up   *)
(* by email and is taken between its awaits.                               *)
(***************************************************************************)
\* the counter of the 30-second period the clock is in
TimeStep == (now \div 1000) \div MFA_PERIOD

\* speakeasy.totp.verify({ secret, token, window })
verifyMFAToken(token, secret) ==
    \E d \in (0 - MFA_WINDOW)..MFA_WINDOW : token = Totp(secret, TimeStep + d)

\* body('token').isLength({ min: 6, max: 6 }).isNumeric() fails on this one
MalformedToken == [secret |-> "", counter |-> 0 - 1]

\* the codes an authenticator shows now for the secrets, and a malformed one
RequestMfaTokens ==
    {Totp(secret, TimeStep) : secret \in MfaSecrets} \cup {MalformedToken}

MfaRequest(op, email, token) ==
    Request(op, email, <<>>, <<>>, token, 0, "missing", "none")

\* router.post('/setup'): $set mfaSecret, mfaBackupCodes, mfaSetupPending
MfaSetupHandler(user, mfaSecret) ==
    LET backupCodes == generateBackupCodes(setupCount + 1) IN
    /\ req' = MfaRequest("mfa-setup", user.email, <<>>)
    /\ UNCHANGED <<users, otpStore, passwordResetTokens, now, insertedCount,
                   resetTokenCount, mailbox, wrongRun, session, inflight,
                   resetLog, auditLog, backupLog, rateState>>
    /\ IF mfa[user.email].mfaEnabled
       THEN /\ res' = Json(400, FALSE,
                           "MFA is already enabled for this account")
            /\ UNCHANGED <<mfa, setupCount>>
       ELSE /\ setupCount < MaxSetups
            /\ setupCount' = setupCount + 1
            /\ mfa' = [mfa EXCEPT ![user.email] =
                 [@ EXCEPT !.mfaSecret = mfaSecret,
                           !.mfaBackupCodes = Array(backupCodes),
                           !.mfaSetupPending = TRUE]]
            /\ res' = Json(200, TRUE, "MFA setup initiated")

\* { $set: { mfaEnabled: true, mfaSetupPending: false },
\*   $unset: { mfaSecret: "" } }
VerifySetupUpdate(fields) ==
    [fields EXCEPT !.mfaEnabled = TRUE, !.mfaSetupPending = FALSE,
                   !.mfaSecret = NoSecret]

\* router.post('/verify-setup')
MfaVerifySetupHandler(user, token) ==
    LET fields == mfa[user.email] IN
    /\ req' = MfaRequest("mfa-verify-setup", user.email, token)
    /\ UNCHANGED <<users, otpStore, passwordResetTokens, now, insertedCount,
                   resetTokenCount, mailbox, wrongRun, session, inflight,
                   resetLog, auditLog, setupCount, backupLog, rateState>>
    /\ IF token = MalformedToken
       THEN /\ res' = ValidationErrors
            /\ UNCHANGED mfa
       ELSE IF ~fields.mfaSetupPending \/ fields.mfaSecret = NoSecret
       THEN /\ res' = Json(400, FALSE, "MFA setup not initiated")
            /\ UNCHANGED mfa
       ELSE IF ~verifyMFAToken(token, fields.mfaSecret)
       THEN /\ res' = Json(400, FALSE, "Invalid MFA token")
            /\ UNCHANGED mfa
       ELSE /\ mfa' = [mfa EXCEPT ![user.email] = VerifySetupUpdate(@)]
            /\ res' = Json(200, TRUE, "MFA enabled successfully")

\* router.post('/disable'): verifyMFAToken is given user.mfaSecret as it
\* is; without a secret speakeasy either rejects the code or throws
MfaDisableHandler(user, token, throws) ==
    LET fields == mfa[user.email] IN
    /\ req' = MfaRequest("mfa-disable", user.email, token)
    /\ UNCHANGED <<users, otpStore, passwordResetTokens, now, insertedCount,
                   resetTokenCount, mailbox, wrongRun, session, inflight,
                   resetLog, auditLog, setupCount, backupLog, rateState>>
    /\ IF token = MalformedToken
       THEN /\ res' = ValidationErrors
            /\ UNCHANGED mfa
       ELSE IF ~fields.mfaEnabled
       THEN /\ res' = Json(400, FALSE, "MFA is not enabled for this account")
            /\ UNCHANGED mfa
       ELSE IF fields.mfaSecret = NoSecret /\ throws
       THEN /\ res' = Json(500, FALSE, "MFA disable failed")
            /\ UNCHANGED mfa
       ELSE IF ~verifyMFAToken(token, fields.mfaSecret)
       THEN /\ res' = Json(400, FALSE, "Invalid MFA token")
            /\ UNCHANGED mfa
       ELSE /\ mfa' = [mfa EXCEPT ![user.email] =
                 [@ EXCEPT !.mfaEnabled = FALSE, !.mfaSecret = NoSecret,
                           !.mfaBackupCodes = Undefined]]
            /\ res' = Json(200, TRUE, "MFA disabled successfully")

\* router.post('/verify-backup') from the validation chain to
\* await findOne({ email })
VerifyBackupReceive(c, rawEmail, backupCode) ==
    /\ inflight[c] = NoFlight
    /\ inflight' = [inflight EXCEPT ![c] =
         IF ~IsEmail(rawEmail) \/ Len(backupCode) # BACKUP_CODE_LENGTH
         THEN Answered(backupCode, ValidationErrors)
         ELSE [at |-> "findOne", email |-> NormalizeEmail(rawEmail),
               backupCode |-> backupCode]]
    /\ UNCHANGED <<users, otpStore, passwordResetTokens, now, insertedCount,
                   resetTokenCount, mailbox, wrongRun, session, req, res,
                   resetLog, auditLog, mfaState, rateState>>

\* updateOne({ _id: user._id }, { $set: { mfaBackupCodes } })
UpdateBackupCodesById(id, updatedBackupCodes) ==
    [e \in Emails |->
        IF users[e] # NoUser /\ users[e]._id = id
        THEN [mfa[e] EXCEPT !.mfaBackupCodes = Array(updatedBackupCodes)]
        ELSE mfa[e]]

\* the event loop resumes the handler after the await it is suspended at
VerifyBackupResume(c) ==
    LET f == inflight[c]
        user == users[f.email]
        fields == mfa[f.email]
    IN
    /\ f.at \in {"findOne", "updateOne", "updated"}
    /\ UNCHANGED <<users, otpStore, passwordResetTokens, now, insertedCount,
                   resetTokenCount, mailbox, wrongRun, session, req, res,
                   resetLog, auditLog, setupCount, rateState>>
    /\ IF f.at = "findOne"
       THEN /\ inflight' = [inflight EXCEPT ![c] =
                 IF user = NoUser
                 THEN Answered(f.backupCode,
                               Json(404, FALSE, "User not found"))
                 ELSE IF ~fields.mfaEnabled
                         \/ fields.mfaBackupCodes = Undefined
                 THEN Answered(f.backupCode,
                        Json(400, FALSE, "MFA backup codes not available"))
                 ELSE IF ~verifyBackupCode(f.backupCode,
                                           fields.mfaBackupCodes.array)
                 THEN Answered(f.backupCode,
                               Json(400, FALSE, "Invalid backup code"))
                 ELSE [at |-> "updateOne", backupCode |-> f.backupCode,
                       id |-> user._id,
                       updatedBackupCodes |->
                           FilterOut(fields.mfaBackupCodes.array,
                                     ToUpperCase(f.backupCode))]]
            /\ UNCHANGED <<mfa, backupLog>>
       ELSE IF f.at = "updateOne"
       THEN /\ mfa' = UpdateBackupCodesById(f.id, f.updatedBackupCodes)
            /\ inflight' = [inflight EXCEPT ![c] =
                 [at |-> "updated", backupCode |-> f.backupCode]]
            /\ UNCHANGED backupLog
       ELSE /\ inflight' = [inflight EXCEPT ![c] =
                 Answered(f.backupCode,
                   Json(200, TRUE, "Backup code verification successful"))]
            /\ backupLog' =
                 [backupLog EXCEPT ![ToUpperCase(f.backupCode)] = @ + 1]
            /\ UNCHANGED mfa

\* the accounts come from the well-formed registration, confirmed with the
\* code that was mailed
MfaRegister ==
    /\ Idle
    /\ UNCHANGED aux
    /\ Register(DefaultEmail, DefaultPassword, "jobseeker", "ok", DefaultOTP,
                TRUE)

MfaVerifyEmail ==
    /\ Idle
    /\ UNCHANGED aux
    /\ VerifyEmail(DefaultEmail, DefaultOTP)

\* the caller of the three routes behind authenticateUser: a verified user
MfaCallers == {users[e] : e \in {a \in Emails : users[a] # NoUser}}

MfaSetup ==
    /\ Idle
    /\ \E user \in MfaCallers, mfaSecret \in MfaSecrets :
        user.isVerified /\ MfaSetupHandler(user, mfaSecret)

MfaVerifySetup ==
    /\ Idle
    /\ \E user \in MfaCallers, token \in RequestMfaTokens :
        user.isVerified /\ MfaVerifySetupHandler(user, token)

MfaDisable ==
    /\ Idle
    /\ \E user \in MfaCallers, token \in RequestMfaTokens, throws \in BOOLEAN :
        user.isVerified /\ MfaDisableHandler(user, token, throws)

\* the first code of the first setup as generated and in lower case, its
\* second code, a code never generated, and a short one
RequestBackupCodes ==
    { BackupCode(1, 1), ToLowerCase(BackupCode(1, 1)), BackupCode(1, 2),
      <<"F","F","F","F","F","F","F","F">>, <<"A","B">> }

MfaVerifyBackupReceive ==
    /\ Idle
    /\ \E c \in Connections, backupCode \in RequestBackupCodes :
        VerifyBackupReceive(c, DefaultEmail, backupCode)

MfaVerifyBackupResume ==
    /\ Idle
    /\ \E c \in Connections : VerifyBackupResume(c)

\* the response has left and the connection takes its next request
MfaVerifyBackupSent ==
    /\ Idle
    /\ \E c \in Connections :
        /\ inflight[c].at = "done"
        /\ inflight' = [inflight EXCEPT ![c] = NoFlight]
    /\ UNCHANGED <<users, otpStore, passwordResetTokens, now, insertedCount,
                   resetTokenCount, mailbox, wrongRun, session, req, res,
                   resetLog, auditLog, mfaState, rateState>>

\* the mutation: the login of an account with MFA answers with a challenge
\* in place of the token
MfaLoginChallenged ==
    /\ Idle
    /\ UNCHANGED aux
    /\ \E password \in {DefaultPassword, FreshPassword} :
        IF mfa[NormalizeEmail(DefaultEmail)].mfaEnabled
        THEN /\ req' = Request("login", NormalizeEmail(DefaultEmail),
                               password, <<>>, <<>>, 0, "ok", "none")
             /\ res' = Json(200, TRUE, "MFA token required")
             /\ UNCHANGED <<users, otpStore, passwordResetTokens, now,
                            insertedCount, resetTokenCount, mailbox,
                            wrongRun, session>>
        ELSE Login(DefaultEmail, password, "ok")

\* router.post('/login') reads no MFA field
MfaLogin ==
    /\ Idle
    /\ UNCHANGED aux
    /\ \E password \in {DefaultPassword, FreshPassword} :
        Login(DefaultEmail, password, "ok")

MfaNext ==
    \/ MfaRegister
    \/ MfaVerifyEmail
    \/ MfaSetup
    \/ MfaVerifySetup
    \/ MfaDisable
    \/ MfaVerifyBackupReceive
    \/ MfaVerifyBackupResume
    \/ MfaVerifyBackupSent
    \/ SendResponse
    \/ Tick

MfaSpec == Init /\ [][MfaNext]_vars

\* the login route next to the routes that set and clear the MFA fields
MfaLoginNext ==
    \/ MfaRegister
    \/ MfaVerifyEmail
    \/ MfaSetup
    \/ MfaVerifySetup
    \/ MfaDisable
    \/ MfaLogin
    \/ SendResponse
    \/ Tick

MfaLoginSpec == Init /\ [][MfaLoginNext]_vars

(***************************************************************************)
(* The rate limiters in front of the routes (express-rate-limit)           *)
(*                                                                         *)
(* app.use(securityMiddleware.rateLimiter) stands in front of every        *)
(* route, app.use('/api/auth', authRateLimiter, authRoutes) adds the       *)
(* limiter of the authentication router behind it.  apiRateLimiter is      *)
(* created and imported but mounted nowhere.  Each limiter counts the      *)
(* requests of a key in a fixed window and refuses those beyond max.       *)
(***************************************************************************)
\* RATE_LIMIT.WINDOW_MS and the windowMs of createRateLimiter: 15 minutes
WINDOW_MS == 15 * 60 * 1000

\* RATE_LIMIT.MAX_REQUESTS
GLOBAL_MAX_REQUESTS == 100

\* authRateLimiter: 5 attempts
AUTH_MAX_REQUESTS == 5

\* the store of a limiter: the first request of a key, and the first after
\* its window has ended, opens a window; the others are counted in it
Increment(entry) ==
    IF entry.resetTime <= now
    THEN [count |-> 1, resetTime |-> now + WINDOW_MS]
    ELSE [entry EXCEPT !.count = @ + 1]

\* the mutation: the request that exceeds max by one is let through
WithinLimitOrOneMore(entry, max) == entry.count <= max + 1

\* totalHits <= max: the request goes on to next()
WithinLimit(entry, max) == entry.count <= max

\* keyGenerator: req.user ? `${req.ip}-${req.user.userId}` : req.ip
KeyGenerator(reqUser, ip) ==
    IF reqUser = Undefined THEN ip ELSE <<ip, reqUser.userId>>

\* message: SECURITY_CONFIG.RATE_LIMIT.MESSAGE, sent with status 429
GlobalRejection ==
    Json(429, FALSE, "Too many requests from this IP, please try again later.")

\* message: { success: false, message }, sent with status 429
AuthRejection ==
    Json(429, FALSE,
         "Too many authentication attempts. Please try again later.")

\* the limiters a request of the address passes in the order they are
\* mounted: the stores after it, and whether it reaches the route
AfterLimiters(ip, onAuthRouter) ==
    LET global == Increment(hits.global[ip])
        key == KeyGenerator(ReqUserOnAuthRouter, ip)
        auth == Increment(hits.auth[key])
    IN
    IF ~WithinLimit(global, GLOBAL_MAX_REQUESTS)
    THEN [hits |-> [hits EXCEPT !.global[ip] = global],
          next |-> FALSE, rejection |-> GlobalRejection]
    ELSE IF ~onAuthRouter
    THEN [hits |-> [hits EXCEPT !.global[ip] = global],
          next |-> TRUE, rejection |-> IdleResponse]
    ELSE [hits |-> [hits EXCEPT !.global[ip] = global, !.auth[key] = auth],
          next |-> WithinLimit(auth, AUTH_MAX_REQUESTS),
          rejection |-> AuthRejection]

\* the limiter has answered in place of the route
TooManyRequests(op, rejection) ==
    /\ req' = Request(op, <<>>, <<>>, <<>>, <<>>, 0, "missing", "none")
    /\ res' = rejection
    /\ UNCHANGED <<users, otpStore, passwordResetTokens, now, insertedCount,
                   resetTokenCount, mailbox, wrongRun, session>>

\* the 15-minute window, counted from the start of the server, the clock
\* is in
WindowOf(time) == (time - StartTime) \div WINDOW_MS

\* one more request of the address got past the limiters in this window
OneMoreReached(entry) ==
    IF entry.window = WindowOf(now)
    THEN [entry EXCEPT !.count = @ + 1]
    ELSE [count |-> 1, window |-> WindowOf(now)]

\* the requests of an address are followed until MaxRejected of them were
\* refused in the window
Followed(ip, onAuthRouter) ==
    /\ Increment(hits.global[ip]).count <= GLOBAL_MAX_REQUESTS + MaxRejected
    /\ onAuthRouter =>
         Increment(hits.auth[ip]).count <= AUTH_MAX_REQUESTS + MaxRejected

\* a request to a route of the authentication router
RateLimitedAuth(ip, op) ==
    /\ Idle
    /\ Followed(ip, TRUE)
    /\ hits' = AfterLimiters(ip, TRUE).hits
    /\ client' = ip
    /\ reached' = IF AfterLimiters(ip, TRUE).next
                  THEN [reached EXCEPT !.auth[ip] = OneMoreReached(@)]
                  ELSE reached
    /\ UNCHANGED <<inflight, resetLog, auditLog, mfaState>>
    /\ ~AfterLimiters(ip, TRUE).next =>
          TooManyRequests(op, AfterLimiters(ip, TRUE).rejection)

\* the address the authentication requests are followed from
AuthClients == {"198.51.100.9"}

RateRegister ==
    \E ip \in AuthClients :
        /\ RateLimitedAuth(ip, "register")
        /\ AfterLimiters(ip, TRUE).next =>
              Register(DefaultEmail, DefaultPassword, "jobseeker", "ok",
                       DefaultOTP, TRUE)

RateVerifyEmail ==
    \E ip \in AuthClients :
        /\ RateLimitedAuth(ip, "verify-email")
        /\ AfterLimiters(ip, TRUE).next =>
              VerifyEmail(DefaultEmail, DefaultOTP)

RateLogin ==
    \E ip \in AuthClients, password \in {DefaultPassword, FreshPassword} :
        /\ RateLimitedAuth(ip, "login")
        /\ AfterLimiters(ip, TRUE).next =>
              Login(DefaultEmail, password, "ok")

\* the address the general API traffic is followed from
ApiClient == "203.0.113.7"

\* a request to a route outside the authentication router
RateJobsOfUser ==
    LET after == AfterLimiters(ApiClient, FALSE) IN
    /\ Idle
    /\ Followed(ApiClient, FALSE)
    /\ hits' = after.hits
    /\ client' = ApiClient
    /\ reached' = IF after.next
                  THEN [reached EXCEPT !.api[ApiClient] = OneMoreReached(@)]
                  ELSE reached
    /\ UNCHANGED <<inflight, resetLog, auditLog, mfaState>>
    /\ IF after.next
       THEN \E c \in BearerChoices : JobsOfUser(c)
       ELSE TooManyRequests("jobs-of-user", after.rejection)

RateSendResponse ==
    /\ ~Idle
    /\ req' = IdleRequest
    /\ res' = IdleResponse
    /\ client' = NoClient
    /\ UNCHANGED <<users, otpStore, passwordResetTokens, now, insertedCount,
                   resetTokenCount, mailbox, wrongRun, session, inflight,
                   resetLog, auditLog, mfaState, hits, reached>>

\* the clock, with the timer of the stores that drops the entries whose
\* window has ended
RateTick ==
    /\ Idle
    /\ now + TickMs <= StartTime + MaxTicks * TickMs
    /\ now' = now + TickMs
    /\ hits' = [limiter \in DOMAIN hits |->
                 [key \in DOMAIN hits[limiter] |->
                    IF hits[limiter][key].resetTime <= now + TickMs
                    THEN NoHits ELSE hits[limiter][key]]]
    /\ reached' = [class \in DOMAIN reached |->
                    [ip \in DOMAIN reached[class] |->
                       IF reached[class][ip].window = WindowOf(now + TickMs)
                       THEN reached[class][ip] ELSE NoneReached]]
    /\ UNCHANGED <<users, otpStore, passwordResetTokens, insertedCount,
                   resetTokenCount, mailbox, wrongRun, session, req, res,
                   inflight, resetLog, auditLog, mfaState, client>>

RateNext ==
    \/ RateRegister
    \/ RateVerifyEmail
    \/ RateLogin
    \/ RateJobsOfUser
    \/ RateSendResponse
    \/ RateTick

RateSpec == Init /\ [][RateNext]_vars

(***************************************************************************)
(* The audit log: logAuditEvent of config/security.js, called by the       *)
(* handlers of the authentication router right before the response that    *)
(* reports the transition.  The winston file transport appends one line    *)
(* per call to logs/audit.log.                                             *)
(***************************************************************************)
\* auditLogger.info({ userId, action, details, ipAddress, userAgent, ... })
logAuditEvent(userId, action) ==
    Append(auditLog, [userId |-> userId, action |-> action])

\* the handler is entered while the log has room in the model
AuditRequest == Idle /\ Len(auditLog) < MaxAudit

AuditFrame == UNCHANGED <<inflight, resetLog, mfaState, rateState>>

\* register: the call stands behind the early return of a failed delivery
AuditRegister ==
    /\ AuditRequest
    /\ AuditFrame
    /\ \E r \in RegisterRequests :
        Register(r.rawEmail, r.password, r.role, r.captcha, r.otp,
                 r.deliveryOk)
    /\ auditLog' =
         IF res'.status = 201
         THEN logAuditEvent(IdToString(users'[req'.email]._id),
                            "USER_REGISTRATION")
         ELSE auditLog

\* verify-email: the call stands between generateToken and res.json
AuditVerifyEmail ==
    /\ AuditRequest
    /\ AuditFrame
    /\ \E rawEmail \in RawEmails, otp \in RequestOTPs :
        VerifyEmail(rawEmail, otp)
    /\ auditLog' =
         IF res'.token # <<>>
         THEN logAuditEvent(IdToString(users[req'.email]._id),
                            "EMAIL_VERIFICATION")
         ELSE auditLog

\* login: one call after the update of a wrong password, one before the
\* response of a successful login
AuditLogin ==
    /\ AuditRequest
    /\ AuditFrame
    /\ \E r \in LoginRequests : Login(r.rawEmail, r.password, r.captcha)
    /\ auditLog' =
         IF res'.token # <<>>
         THEN logAuditEvent(IdToString(users[req'.email]._id),
                            "LOGIN_SUCCESS")
         ELSE IF res' = PasswordMismatchResponse /\ users[req'.email] # NoUser
         THEN logAuditEvent(IdToString(users[req'.email]._id), "LOGIN_FAILED")
         ELSE auditLog

\* forgot-password: the call stands in the branch of a delivered mail
AuditForgotPassword ==
    /\ AuditRequest
    /\ AuditFrame
    /\ \E rawEmail \in RawEmails, deliveryOk \in BOOLEAN :
        ForgotPassword(rawEmail, deliveryOk)
    /\ auditLog' =
         IF res' = Json(200, TRUE, "Password reset link sent to your email")
         THEN logAuditEvent(IdToString(users[req'.email]._id),
                            "PASSWORD_RESET_REQUESTED")
         ELSE auditLog

\* reset-password: the call stands behind passwordResetTokens.delete
AuditResetPassword ==
    /\ AuditRequest
    /\ AuditFrame
    /\ \E r \in ResetRequests : ResetPassword(r.token, r.password, r.bodyEmail)
    /\ auditLog' =
         IF res'.success
         THEN logAuditEvent(GetResetData(req'.token).userId,
                            "PASSWORD_RESET_COMPLETED")
         ELSE auditLog

\* change-password: the call stands behind the update of the password
AuditChangePassword ==
    /\ AuditRequest
    /\ AuditFrame
    /\ \E r \in ChangeRequests, c \in BearerChoices :
        ChangePassword(c, r.currentPassword, r.password, r.bodyEmail)
    /\ auditLog' =
         IF res'.success
         THEN logAuditEvent(ReqUserOnAuthRouter.userId, "PASSWORD_CHANGED")
         ELSE auditLog

AuditNext ==
    \/ AuditRegister
    \/ AuditVerifyEmail
    \/ AuditLogin
    \/ AuditForgotPassword
    \/ AuditResetPassword
    \/ AuditChangePassword
    \/ SendResponse
    \/ Tick

AuditSpec == Init /\ [][AuditNext]_vars

(***************************************************************************)
(* router.post('/login') on several connections at once.  The handler is   *)
(* suspended at its awaits; between await findOne and the updateOne that   *)
(* follows await comparePassword other requests run.  Each call of the     *)
(* collection is atomic.  The requests are well-formed and have passed     *)
(* the bot check.  Here wrongRun counts the requests that comparePassword  *)
(* found wrong, from the last one it found right.                          *)
(***************************************************************************)
\* the response of a login request is written, for the account email
LoginAnswered(email, response) ==
    [at |-> "done", email |-> email, res |-> response]

\* up to await comparePassword(password, user.password): the document
\* findOne({ email }) returned is held in the local user
LoginReceive(c, email, password) ==
    LET user == users[email] IN
    /\ inflight[c] = NoFlight
    /\ inflight' = [inflight EXCEPT ![c] =
         IF user = NoUser
         THEN LoginAnswered(email, UserAbsentResponse)
         ELSE IF IsLocked(user)
         THEN LoginAnswered(email, Json(423, FALSE,
                "Account is temporarily locked due to too many failed attempts"))
         ELSE IF ~user.isVerified
         THEN LoginAnswered(email, Json(401, FALSE,
                "Please verify your email before logging in"))
         ELSE [at |-> "compare", email |-> email, password |-> password,
               user |-> user]]
    /\ UNCHANGED <<users, otpStore, passwordResetTokens, now, insertedCount,
                   resetTokenCount, mailbox, wrongRun, session, req, res,
                   resetLog, auditLog, mfaState, rateState>>

\* updateOne({ email }, { $set: { loginAttempts, lockUntil } })
SetLoginFailure(email, loginAttempts, lockUntil) ==
    IF users[email] = NoUser THEN users
    ELSE [users EXCEPT ![email] = [@ EXCEPT !.loginAttempts = loginAttempts,
                                            !.lockUntil = lockUntil]]

\* updateOne({ email }, { $set: { loginAttempts: 0, lockUntil: null,
\* lastLogin: new Date() } })
SetLoginSuccess(email) ==
    IF users[email] = NoUser THEN users
    ELSE [users EXCEPT ![email] = [@ EXCEPT !.loginAttempts = 0,
                                            !.lockUntil = Null,
                                            !.lastLogin = now]]

\* from the result of comparePassword to the response: the update is
\* computed from the local user, not from the stored document
LoginResume(c) ==
    LET f == inflight[c]
        newLoginAttempts == f.user.loginAttempts + 1
    IN
    /\ f.at = "compare"
    /\ IF ~comparePassword(f.password, f.user.password)
       THEN /\ f.user.loginAttempts < MaxAttempts
            /\ users' = SetLoginFailure(f.email, newLoginAttempts,
                                        LockUntilAfter(newLoginAttempts))
            /\ wrongRun' = [wrongRun EXCEPT ![f.email] =
                               IF @ > MaxAttempts THEN @ ELSE @ + 1]
            /\ inflight' = [inflight EXCEPT ![c] =
                               LoginAnswered(f.email, PasswordMismatchResponse)]
            /\ UNCHANGED session
       ELSE /\ users' = SetLoginSuccess(f.email)
            /\ wrongRun' = [wrongRun EXCEPT ![f.email] = 0]
            /\ inflight' = [inflight EXCEPT ![c] =
                 LoginAnswered(f.email,
                     JsonWithToken("Login successful", generateToken(f.user)))]
            /\ session' = [session EXCEPT ![f.email] = generateToken(f.user)]
    /\ UNCHANGED <<otpStore, passwordResetTokens, now, insertedCount,
                   resetTokenCount, mailbox, req, res, resetLog, auditLog,
                   mfaState, rateState>>

\* "Wr0ng!Pwd", a password the account never had
WrongPassword == <<"W","r","0","n","g","!","P","w","d">>

ConcurrentLoginReceive ==
    \E c \in Connections, password \in {DefaultPassword, WrongPassword} :
        LoginReceive(c, NormalizeEmail(DefaultEmail), password)

ConcurrentLoginResume == \E c \in Connections : LoginResume(c)

LoginNext ==
    \/ MfaRegister
    \/ MfaVerifyEmail
    \/ ConcurrentLoginReceive
    \/ ConcurrentLoginResume
    \/ ResetSent
    \/ SendResponse
    \/ Tick

LoginSpec == Init /\ [][LoginNext]_vars

(***************************************************************************)
(* router.post('/register') on several connections at once.  The handler   *)
(* is suspended at await findOne, await hashPassword, await insertOne and  *)
(* await sendOTPVerification.  The users collection has the unique index   *)
(* on email that index.js creates at start, so the second insertOne for    *)
(* an email throws and the handler answers from its catch block.           *)
(***************************************************************************)
\* the response of a register request is written
RegisterAnswered(email, response) ==
    [at |-> "done", email |-> email, res |-> response]

\* createIndex({ email: 1 }, { unique: true }): insertOne throws E11000
DuplicateKey(collection, user) == collection[user.email] # NoUser

\* up to await hashPassword(password), for a well-formed request
RegisterReceive(c, email, password, otp) ==
    /\ inflight[c] = NoFlight
    /\ inflight' = [inflight EXCEPT ![c] =
         IF users[email] # NoUser
         THEN RegisterAnswered(email, Json(400, FALSE, "User already exists"))
         ELSE [at |-> "hashPassword", email |-> email, password |-> password,
               otp |-> otp]]
    /\ UNCHANGED <<users, otpStore, passwordResetTokens, now, insertedCount,
                   resetTokenCount, mailbox, wrongRun, session, req, res,
                   resetLog, auditLog, mfaState, rateState>>

\* from otpStore.set to await insertOne, and from the result of insertOne
\* through the delivery of the mail to the response
RegisterResume(c, deliveryOk) ==
    LET f == inflight[c]
        otpExpiry == now + OTP_EXPIRES_IN
        user == [ _id |-> ObjectId(insertedCount + 1),
                  email |-> f.email,
                  role |-> "jobseeker",
                  password |-> hashPassword(f.password),
                  isVerified |-> FALSE,
                  verificationOTP |-> f.otp,
                  otpExpiry |-> otpExpiry,
                  passwordHistory |-> <<hashPassword(f.password)>>,
                  loginAttempts |-> 0,
                  lockUntil |-> Null,
                  lastLogin |-> Null ]
    IN
    /\ f.at \in {"hashPassword", "sendOTPVerification"}
    /\ IF f.at = "hashPassword"
       THEN /\ otpStore' = [otpStore EXCEPT
                              ![f.email] = [otp |-> f.otp, expiry |-> otpExpiry,
                                            attempts |-> 0]]
            /\ IF DuplicateKey(users, user)
               THEN /\ inflight' = [inflight EXCEPT ![c] =
                         RegisterAnswered(f.email,
                             Json(500, FALSE, "Registration failed"))]
                    /\ UNCHANGED <<users, insertedCount>>
               ELSE /\ insertedCount < MaxInserts
                    /\ users' = InsertOne(users, user)
                    /\ insertedCount' = insertedCount + 1
                    /\ inflight' = [inflight EXCEPT ![c] =
                         [at |-> "sendOTPVerification", email |-> f.email,
                          otp |-> f.otp, user |-> user]]
            /\ UNCHANGED mailbox
       ELSE /\ IF deliveryOk
               THEN /\ mailbox' = [mailbox EXCEPT ![f.email] = f.otp]
                    /\ inflight' = [inflight EXCEPT ![c] =
                         RegisterAnswered(f.email, Json(201, TRUE,
                           "Registration successful. Please check your email for verification."))]
                    /\ UNCHANGED users
               ELSE /\ users' = DeleteOne(users, f.user)
                    /\ inflight' = [inflight EXCEPT ![c] =
                         RegisterAnswered(f.email, Json(500, FALSE,
                           "Failed to send verification email"))]
                    /\ UNCHANGED mailbox
            /\ UNCHANGED <<otpStore, insertedCount>>
    /\ UNCHANGED <<passwordResetTokens, now, resetTokenCount, wrongRun,
                   session, req, res, resetLog, auditLog, mfaState, rateState>>

ConcurrentRegisterReceive ==
    \E c \in Connections, otp \in GenOTPs :
        RegisterReceive(c, NormalizeEmail(DefaultEmail), DefaultPassword, otp)

ConcurrentRegisterResume ==
    \E c \in Connections, deliveryOk \in BOOLEAN : RegisterResume(c, deliveryOk)

\* the owner of the address submits a code
OwnerVerifyEmail ==
    /\ Idle
    /\ UNCHANGED aux
    /\ \E otp \in GenOTPs : VerifyEmail(DefaultEmail, otp)

RegisterNext ==
    \/ ConcurrentRegisterReceive
    \/ ConcurrentRegisterResume
    \/ ResetSent
    \/ OwnerVerifyEmail
    \/ SendResponse
    \/ Tick

RegisterSpec == Init /\ [][RegisterNext]_vars

(***************************************************************************)
(* router.post('/setup') of routes/mfa.js on several connections at once,  *)
(* next to verify-setup and disable.  The handler is suspended at          *)
(* await generateMFACode(mfaSecret), between the findOne whose document    *)
(* it tests for mfaEnabled and its updateOne.  As in the section on        *)
(* routes/mfa.js, the handlers are taken from the point where they hold    *)
(* the caller's document.                                                  *)
(***************************************************************************)
\* the response of a setup request is written
MfaSetupAnswered(email, response) ==
    [at |-> "done", email |-> email, res |-> response]

\* findOne, the test of user.mfaEnabled and generateMFASecret, up to
\* await generateMFACode
MfaSetupReceive(c, user, mfaSecret) ==
    /\ inflight[c] = NoFlight
    /\ inflight' = [inflight EXCEPT ![c] =
         IF mfa[user.email].mfaEnabled
         THEN MfaSetupAnswered(user.email,
                Json(400, FALSE, "MFA is already enabled for this account"))
         ELSE [at |-> "generateMFACode", email |-> user.email,
               mfaSecret |-> mfaSecret]]
    /\ UNCHANGED <<users, otpStore, passwordResetTokens, now, insertedCount,
                   resetTokenCount, mailbox, wrongRun, session, req, res,
                   resetLog, auditLog, mfaState, rateState>>

\* generateBackupCodes and updateOne({ _id: userId }, { $set: { mfaSecret,
\* mfaBackupCodes, mfaSetupPending: true } }), then the response
MfaSetupResume(c) ==
    LET f == inflight[c]
        backupCodes == generateBackupCodes(setupCount + 1)
    IN
    /\ f.at = "generateMFACode"
    /\ setupCount < MaxSetups
    /\ setupCount' = setupCount + 1
    /\ mfa' = [mfa EXCEPT ![f.email] =
         [@ EXCEPT !.mfaSecret = f.mfaSecret,
                   !.mfaBackupCodes = Array(backupCodes),
                   !.mfaSetupPending = TRUE]]
    /\ inflight' = [inflight EXCEPT ![c] =
         MfaSetupAnswered(f.email, Json(200, TRUE, "MFA setup initiated"))]
    /\ UNCHANGED <<users, otpStore, passwordResetTokens, now, insertedCount,
                   resetTokenCount, mailbox, wrongRun, session, req, res,
                   resetLog, auditLog, backupLog, rateState>>

ConcurrentMfaSetupReceive ==
    \E c \in Connections, user \in MfaCallers, mfaSecret \in MfaSecrets :
        user.isVerified /\ MfaSetupReceive(c, user, mfaSecret)

ConcurrentMfaSetupResume == \E c \in Connections : MfaSetupResume(c)

MfaSetupNext ==
    \/ MfaRegister
    \/ MfaVerifyEmail
    \/ ConcurrentMfaSetupReceive
    \/ ConcurrentMfaSetupResume
    \/ ResetSent
    \/ MfaVerifySetup
    \/ MfaDisable
    \/ SendResponse
    \/ Tick

MfaSetupSpec == Init /\ [][MfaSetupNext]_vars

(***************************************************************************)
(* Properties                                                              *)
(***************************************************************************)
\* a step that answers a request of the given kind for the account e
Answers(op, e) == Idle /\ req'.op = op /\ req'.email = e

\* the login request passed the validation chain and the bot check
LoginReachedLookup == req'.password # <<>> /\ req'.captcha = "ok"

\* the request carries the password of the account e
CarriesPasswordOf(e) == users[e].password = hashPassword(req'.password)

LockedMessage ==
    "Account is temporarily locked due to too many failed attempts"

\* C1: on a verified account the 5th wrong-password login in a row sets
\* lockUntil to the time of that login plus 15 minutes; while now is
\* before lockUntil every login, also one with the right password, is
\* answered 423 and changes no user field; once lockUntil is reached a
\* login with the right password succeeds, loginAttempts becomes 0 and
\* lockUntil none.
C1_LockoutAfterFiveFailures ==
    [][\A e \in Emails :
        Answers("login", e) /\ LoginReachedLookup /\ users[e] # NoUser
           /\ users[e].isVerified
        =>
        /\ (wrongRun[e] = 4 /\ wrongRun'[e] = 5)
              => /\ users'[e].lockUntil = now + 15 * 60 * 1000
                 /\ users'[e].loginAttempts = 5
        /\ (users[e].lockUntil # Null /\ now < users[e].lockUntil)
              => /\ res'.status = 423
                 /\ res'.message = LockedMessage
                 /\ res'.token = <<>>
                 /\ users' = users
        /\ (users[e].lockUntil # Null /\ now >= users[e].lockUntil
              /\ CarriesPasswordOf(e))
              => /\ res'.success
                 /\ res'.token # <<>>
                 /\ users'[e].loginAttempts = 0
                 /\ users'[e].lockUntil = Null
    ]_vars

\* C1 witness: a locked account has just refused its own password
C1_Witness ==
    \E e \in Emails :
        /\ req.op = "login" /\ req.email = e
        /\ users[e] # NoUser
        /\ users[e].loginAttempts = 5
        /\ users[e].lockUntil > now
        /\ users[e].password = hashPassword(req.password)
        /\ res.status = 423

\* C2 (as claimed): the 5th wrong-password login in a row is itself
\* answered with the account-locked error.
C2_FifthFailureAnswersLocked ==
    [][\A e \in Emails :
        Answers("login", e) /\ wrongRun[e] = 4 /\ wrongRun'[e] = 5
        => res'.status = 423
    ]_vars

\* C2 (amended): the 5th wrong-password login in a row is answered 401
\* "Invalid credentials" like the four before it, and sets the lock; the
\* account-locked error is the answer to the logins that follow it
\* while the lock lasts.
C2_FifthFailureAnswersInvalidCredentials ==
    [][\A e \in Emails :
        /\ Answers("login", e) /\ wrongRun[e] = 4 /\ wrongRun'[e] = 5
           => /\ res'.status = 401
              /\ res'.message = "Invalid credentials"
              /\ users'[e].lockUntil > now
        /\ Answers("login", e) /\ LoginReachedLookup /\ users[e] # NoUser
              /\ users[e].loginAttempts >= 5 /\ users[e].lockUntil > now
           => res'.status = 423
    ]_vars

\* C2 witness: the 5th failure has just been answered 401 and the account
\* is locked
C2_Witness ==
    \E e \in Emails :
        /\ req.op = "login" /\ req.email = e
        /\ wrongRun[e] = 5
        /\ users[e].loginAttempts = 5
        /\ users[e].lockUntil > now
        /\ res.status = 401

\* C3 (as claimed): a login with a wrong password gets the same answer
\* whether or not an account exists for the email.
C3_WrongPasswordAnswerHidesAccount ==
    [][\A e \in Emails :
        Answers("login", e) /\ LoginReachedLookup
           /\ (users[e] = NoUser \/ ~CarriesPasswordOf(e))
        => /\ res'.status = 401
           /\ res'.message = "Invalid credentials"
           /\ res'.token = <<>>
    ]_vars

\* C3 (amended): a login with a wrong password for a verified account
\* that is not locked gets the same answer as a login for an email
\* without account: 401 "Invalid credentials" and no token.
C3_WrongPasswordAnswerOfOpenAccount ==
    [][\A e \in Emails :
        Answers("login", e) /\ LoginReachedLookup
           /\ \/ users[e] = NoUser
              \/ /\ ~CarriesPasswordOf(e)
                 /\ users[e].isVerified
                 /\ ~(users[e].lockUntil # Null /\ users[e].lockUntil > now)
        => /\ res'.status = 401
           /\ res'.message = "Invalid credentials"
           /\ res'.success = FALSE
           /\ res'.errors = FALSE
           /\ res'.token = <<>>
    ]_vars

\* C3 witness: a verified, unlocked account has just refused a wrong
\* password
C3_Witness ==
    \E e \in Emails :
        /\ req.op = "login" /\ req.email = e
        /\ users[e] # NoUser /\ users[e].isVerified
        /\ users[e].password # hashPassword(req.password)
        /\ users[e].loginAttempts \in 1..4
        /\ res.status = 401

\* the answer of forgot-password for an email without account
GenericForgotMessage ==
    "If an account with this email exists, a password reset link has been sent"

\* C4 (as claimed): forgot-password gives an email that has an account,
\* when the delivery succeeds, the same status, success flag and message
\* as an email that has no account.
C4_ForgotPasswordSameEnvelope ==
    [][\A e \in Emails :
        Answers("forgot-password", e) /\ req'.delivery # "failed"
        => /\ res'.status = 200
           /\ res'.success = TRUE
           /\ res'.message = GenericForgotMessage
    ]_vars

\* C5: a Register whose delivery of the verification code fails is
\* answered with a failure and leaves no user record for the email; a
\* user record appears only in a Register whose code was delivered, and
\* every unverified record holds the code that was delivered to it.
C5_RegisterRollsBackOnDeliveryFailure ==
    [][\A e \in Emails :
        /\ Answers("register", e) /\ req'.delivery = "failed"
           => /\ res'.status = 500
              /\ res'.success = FALSE
              /\ res'.message = "Failed to send verification email"
              /\ users'[e] = NoUser
        /\ users[e] = NoUser /\ users'[e] # NoUser
           => /\ Answers("register", e)
              /\ req'.delivery = "ok"
              /\ res'.success = TRUE
        /\ users'[e] # NoUser /\ ~users'[e].isVerified
           => mailbox'[e] = users'[e].verificationOTP
    ]_vars

\* C5 witness: a Register has just failed on the delivery, the code was
\* generated and stored, and no record is left for the email
C5_Witness ==
    \E e \in Emails :
        /\ req.op = "register" /\ req.email = e
        /\ req.delivery = "failed"
        /\ res.status = 500
        /\ otpStore[e] # NoEntry
        /\ insertedCount = 1
        /\ users[e] = NoUser

\* the code presented in the request is the stored, unexpired code of e
CarriesStoredCodeOf(e) ==
    /\ otpStore[e] # NoEntry
    /\ req'.otp = otpStore[e].otp
    /\ now <= otpStore[e].expiry

\* C6: a record created by Register has isVerified = false; isVerified
\* becomes true only in a VerifyEmail whose code equals the stored code
\* of the email and arrives no later than its expiry; a VerifyEmail
\* with any other code, or after the expiry, is rejected and leaves the
\* user records and the stored codes unchanged.
C6_VerifiedOnlyByStoredUnexpiredCode ==
    [][\A e \in Emails :
        /\ users[e] = NoUser /\ users'[e] # NoUser
           => users'[e].isVerified = FALSE
        /\ users[e] # NoUser /\ ~users[e].isVerified
              /\ users'[e] # NoUser /\ users'[e].isVerified
           => /\ Answers("verify-email", e)
              /\ CarriesStoredCodeOf(e)
              /\ res'.success = TRUE
        /\ Answers("verify-email", e) /\ users[e] # NoUser
              /\ ~CarriesStoredCodeOf(e)
           => /\ res'.success = FALSE
              /\ res'.token = <<>>
              /\ users' = users
              /\ otpStore' = otpStore
    ]_vars

\* C6 witness: the stored code has just been refused because it came
\* after its expiry
C6_Witness ==
    \E e \in Emails :
        /\ req.op = "verify-email" /\ req.email = e
        /\ users[e] # NoUser /\ ~users[e].isVerified
        /\ otpStore[e] # NoEntry
        /\ req.otp = otpStore[e].otp
        /\ now > otpStore[e].expiry
        /\ res.status = 400
        /\ res.message = "Invalid or expired OTP"

\* C7: of two VerifyEmail calls with the code that was delivered, the
\* one that finds the account unverified and the code unexpired
\* succeeds: it sets isVerified, clears the code and issues a token; the
\* one that finds the account verified is answered 400 "Email already
\* verified", issues no token and changes nothing.
C7_SecondVerifyEmailAlreadyVerified ==
    [][\A e \in Emails :
        Answers("verify-email", e) /\ users[e] # NoUser
           /\ req'.otp = mailbox[e]
        =>
        /\ ~users[e].isVerified /\ CarriesStoredCodeOf(e)
           => /\ res'.success = TRUE
              /\ res'.token # <<>>
              /\ users'[e].isVerified = TRUE
              /\ users'[e].verificationOTP = <<>>
              /\ otpStore'[e] = NoEntry
        /\ users[e].isVerified
           => /\ res'.status = 400
              /\ res'.success = FALSE
              /\ res'.message = "Email already verified"
              /\ res'.token = <<>>
              /\ users' = users
              /\ otpStore' = otpStore
    ]_vars

\* C7 witness: the delivered code has just been presented a second time
\* to an account it had verified
C7_Witness ==
    \E e \in Emails :
        /\ req.op = "verify-email" /\ req.email = e
        /\ users[e] # NoUser /\ users[e].isVerified
        /\ req.otp = mailbox[e]
        /\ otpStore[e] = NoEntry
        /\ res.status = 400
        /\ res.message = "Email already verified"

\* the five checks of the claim, counted one by one
ClaimScore(p) ==
    (IF Len(p) \in 8..16 THEN 1 ELSE 0)
    + (IF \E i \in DOMAIN p : IsLower(p[i]) THEN 1 ELSE 0)
    + (IF \E i \in DOMAIN p : IsUpper(p[i]) THEN 1 ELSE 0)
    + (IF \E i \in DOMAIN p : IsDigit(p[i]) THEN 1 ELSE 0)
    + (IF \E i \in DOMAIN p : p[i] \in {"@", "$", "!", "%", "*", "?", "&"}
       THEN 1 ELSE 0)

ClaimClass(score) ==
    IF score < 3 THEN "weak" ELSE IF score <= 4 THEN "medium" ELSE "strong"

\* a step that answers a request to set a password
SetsPassword ==
    Idle /\ req'.op \in {"register", "reset-password", "change-password"}

ContainsNameOf(e) == Includes(ToLowerCase(req'.password), SplitAtFirst(e))

\* the reset-password request presents a live reset token of the account e
ResetsPasswordOf(e) ==
    /\ Idle /\ req'.op = "reset-password"
    /\ GetResetData(req'.token) # NoEntry
    /\ now <= GetResetData(req'.token).expiry
    /\ GetResetData(req'.token).email = e
    /\ users[e] # NoUser

\* the change-password request presents the current password of the
\* verified account e
ChangesPasswordOf(e) ==
    /\ Idle /\ req'.op = "change-password"
    /\ users[e] # NoUser /\ users[e].isVerified
    /\ users[e].password = hashPassword(req'.currentPassword)

UsedBefore(e) ==
    \/ users[e].password = hashPassword(req'.password)
    \/ \E i \in 1..Len(users[e].passwordHistory) :
          i <= 5 /\ users[e].passwordHistory[i] = hashPassword(req'.password)

\* the new password satisfies the password policy for the account e
PolicyCompliant(e) == ClaimScore(req'.password) = 5 /\ ~ContainsNameOf(e)

\* C10 (as claimed): reset-password and change-password refuse a new
\* password that equals the current password of the account or one of
\* its last 5 passwords, and accept a policy-compliant password that is
\* none of them, which becomes the password of the account.
C10_UsedPasswordRejectedFreshAccepted ==
    [][\A e \in Emails :
        ResetsPasswordOf(e) \/ ChangesPasswordOf(e)
        => /\ UsedBefore(e)
              => /\ res'.success = FALSE
                 /\ users' = users
           /\ PolicyCompliant(e) /\ ~UsedBefore(e)
              => /\ res'.success = TRUE
                 /\ users'[e].password = hashPassword(req'.password)
    ]_vars

\* password histories a users document can hold: 1 to 5 different hashes
StoredHistories ==
    LET hashes == {hashPassword(p) : p \in Passwords} IN
    {h \in UNION {[1..n -> hashes] : n \in 1..5} :
        \A i, j \in DOMAIN h : i # j => h[i] # h[j]}

\* what the password-change code makes of a stored history: the new hash
\* first, then the old entries in their order, 5 entries at most
HistoryAfterChange ==
    \A h \in StoredHistories, p \in Passwords :
        LET new == NewPasswordHistory(hashPassword(p), h) IN
        /\ Len(new) = (IF Len(h) < 5 THEN Len(h) + 1 ELSE 5)
        /\ new[1] = hashPassword(p)
        /\ \A i \in 2..Len(new) : new[i] = h[i - 1]

C12_Succeeds(c) ==
    /\ inflight[c].at # "done"
    /\ inflight'[c].at = "done"
    /\ inflight'[c].res.message = "Password reset successful"

C12_AtMostOnce ==
    \A t \in ResetTokenIds :
        resetLog[t].successes <= 1 /\ resetLog[t].updates <= 1

C14_EnablesMfa ==
    /\ Idle
    /\ req'.op = "mfa-verify-setup"
    /\ res'.message = "MFA enabled successfully"

C15_LoginGranted ==
    LET user == users[req'.email] IN
    IF user = NoUser THEN FALSE
    ELSE /\ ~IsLocked(user)
         /\ user.isVerified
         /\ comparePassword(req'.password, user.password)

C16_Verdict(token) == authenticateUser(Credentials(token, NoToken, NoToken))

C17_Carried(credentials) ==
    IF credentials.authorization # NoToken THEN credentials.authorization
    ELSE IF credentials.cookie # NoToken THEN credentials.cookie
    ELSE credentials.query

C17_NamesVerifiedUser(token) ==
    /\ token.sig = "JWT.SECRET"
    /\ now \div 1000 < token.iat + JWT_EXPIRES_IN
    /\ \E e \in Emails :
        /\ users[e] # NoUser
        /\ IdToString(users[e]._id) = token.userId
        /\ users[e].isVerified

C17_ValidTokenRefused ==
    /\ req.op = "jobs-of-user"
    /\ \E e \in Emails :
        /\ users[e] # NoUser
        /\ users[e].isVerified
        /\ req.credentials.authorization = session[e]
        /\ req.credentials.authorization # NoToken
    /\ res = Json(401, FALSE, "User not found")

\* C18: of the requests of one client at most 5 to the authentication
\* routes and at most 100 to the other routes get past the limiters in one
\* 15-minute window; a request that comes when that many have got past is
\* answered 429 with the fixed message, a 429 changes no account state, and
\* the first request of a client in a window is never refused
C18_AtMostMaxReach ==
    \A ip \in Ips :
        reached.auth[ip].count <= 5 /\ reached.api[ip].count <= 100

C18_Arrives == Idle /\ req'.op # "none"

C18_ReachedBefore ==
    LET class == IF req'.op = "jobs-of-user" THEN "api" ELSE "auth"
        entry == reached[class][client']
    IN IF entry.window = WindowOf(now) THEN entry.count ELSE 0

C18_Max == IF req'.op = "jobs-of-user" THEN 100 ELSE 5

C18_ApiRefused ==
    /\ req.op = "jobs-of-user"
    /\ res = GlobalRejection
    /\ reached.api[client].count = 100

\* C19: a response carries a session token only when it answers a
\* verify-email request whose code was the stored, unexpired one of an
\* existing unverified account, or a login request whose account exists, is
\* not locked at that time, is verified and has the password of the request;
\* the token names an account that is verified once the request is handled
C19_ByVerifyEmail ==
    /\ req'.op = "verify-email"
    /\ users[req'.email] # NoUser
    /\ otpStore[req'.email] # NoEntry
    /\ otpStore[req'.email].otp = req'.otp
    /\ now <= otpStore[req'.email].expiry
    /\ ~users[req'.email].isVerified
    /\ users'[req'.email].isVerified

C19_ByLogin ==
    /\ req'.op = "login"
    /\ users[req'.email] # NoUser
    /\ (users[req'.email].lockUntil = Null
          \/ users[req'.email].lockUntil <= now)
    /\ users[req'.email].isVerified
    /\ users[req'.email].password = hashPassword(req'.password)

C19_NamesVerified(token) ==
    \E e \in Emails :
        /\ users'[e] # NoUser
        /\ token.email = e
        /\ token.userId = IdToString(users'[e]._id)
        /\ users'[e].isVerified

C19_TokenOnlyToVerified ==
    [][res'.token # <<>> =>
          /\ C19_ByVerifyEmail \/ C19_ByLogin
          /\ C19_NamesVerified(res'.token[1])
          /\ session'[req'.email] = res'.token[1]]_vars

\* a login of a verified account with its password was given a token, at a
\* time after the start
C19_Witness ==
    /\ req.op = "login"
    /\ res.token # <<>>
    /\ now > StartTime
    /\ users[req.email].lastLogin = now
    /\ users[req.email].isVerified

\* a verification was given a token
C19_VerifyEmailToken ==
    /\ req.op = "verify-email"
    /\ res.token # <<>>
    /\ users[req.email].isVerified

\* C20 (as claimed): change-password changes a password only of the account
\* whose valid session token the request carries; with that token, the
\* current password of the account and a new password that passes the
\* rules, differs from the current one and is not in the history, it
\* succeeds and sets the password; without a token, with a wrong current
\* password, or with a new password that is the current one or in the
\* history, it fails and leaves every account as it was.
C20_CallerOf(credentials) ==
    {e \in Emails :
        /\ users[e] # NoUser
        /\ credentials.authorization # NoToken
        /\ credentials.authorization = session[e]
        /\ verifyToken(credentials.authorization) # NoToken}

C20_Acceptable(e) ==
    /\ PasswordRulesPass(req'.password, req'.email)
    /\ checkPasswordStrength(req'.password).isValid
    /\ users[e].password # hashPassword(req'.password)
    /\ \A i \in 1..Len(users[e].passwordHistory) :
          users[e].passwordHistory[i] # hashPassword(req'.password)

C20_ChangePasswordOfCallerOnly ==
    [][req'.op = "change-password" =>
        LET callers == C20_CallerOf(req'.credentials) IN
        /\ \A e \in Emails :
              users'[e] # users[e] => e \in callers /\ res'.success
        /\ callers = {} => ~res'.success /\ users' = users
        /\ \A e \in callers :
              IF /\ users[e].password = hashPassword(req'.currentPassword)
                 /\ C20_Acceptable(e)
              THEN /\ res'.success
                   /\ users'[e].password = hashPassword(req'.password)
              ELSE ~res'.success /\ users' = users]_vars

\* C21 (as claimed): the audit log only grows, and a request that changes
\* the users collection, the one-time codes or the reset tokens appends one
\* event, tagged with the transition it made.
C21_Tag ==
    CASE req'.op = "register" -> "USER_REGISTRATION"
      [] req'.op = "verify-email" -> "EMAIL_VERIFICATION"
      [] req'.op = "login" ->
           IF res'.success THEN "LOGIN_SUCCESS" ELSE "LOGIN_FAILED"
      [] req'.op = "forgot-password" -> "PASSWORD_RESET_REQUESTED"
      [] req'.op = "reset-password" -> "PASSWORD_RESET_COMPLETED"
      [] req'.op = "change-password" -> "PASSWORD_CHANGED"
      [] OTHER -> "none"

C21_StoresChange ==
    \/ users' # users
    \/ otpStore' # otpStore
    \/ passwordResetTokens' # passwordResetTokens

C21_EveryChangeAudited ==
    [][/\ Len(auditLog') >= Len(auditLog)
       /\ SubSeq(auditLog', 1, Len(auditLog)) = auditLog
       /\ C21_StoresChange =>
             /\ Len(auditLog') = Len(auditLog) + 1
             /\ auditLog'[Len(auditLog')].action = C21_Tag]_vars

\* C22: a verify-email request that is refused for its code leaves the
\* stored code, its expiry and its attempts as they were and changes no
\* account, and a request with the stored code of an unverified account
\* that comes no later than the expiry verifies the account, however many
\* requests were refused before
C22_CodeRefused ==
    /\ Idle
    /\ req'.op = "verify-email"
    /\ res' = Json(400, FALSE, "Invalid or expired OTP")

C22_StoredCodeSubmitted ==
    /\ Idle
    /\ req'.op = "verify-email"
    /\ req'.email \in Emails
    /\ users[req'.email] # NoUser
    /\ ~users[req'.email].isVerified
    /\ otpStore[req'.email] # NoEntry
    /\ otpStore[req'.email].otp = req'.otp
    /\ now <= otpStore[req'.email].expiry

C22_WrongCodeKeepsStoredCode ==
    [][/\ C22_CodeRefused => otpStore' = otpStore /\ users' = users
       /\ C22_StoredCodeSubmitted =>
             res'.success /\ users'[req'.email].isVerified]_vars

\* a wrong code was refused for an unverified account whose stored code is
\* still there and unexpired
C22_Witness ==
    /\ req.op = "verify-email"
    /\ res = Json(400, FALSE, "Invalid or expired OTP")
    /\ users[req.email] # NoUser
    /\ ~users[req.email].isVerified
    /\ otpStore[req.email] # NoEntry
    /\ otpStore[req.email].otp # req.otp
    /\ otpStore[req.email].attempts = 0
    /\ now <= otpStore[req.email].expiry

\* C23 (as claimed): in every reachable state a lockUntil that is not null
\* is strictly later than the current time, and a login for an account
\* whose lockUntil is not in the future is handled as if it had no lock.
C23_StoredLockInFuture ==
    \A e \in Emails :
        users[e] # NoUser /\ users[e].lockUntil # Null
        => users[e].lockUntil > now

\* a login request, past validation and bot check, for a verified account
\* whose lock has run out
C23_LoginAfterLock(e) ==
    /\ Answers("login", e)
    /\ LoginReachedLookup
    /\ users[e] # NoUser
    /\ users[e].isVerified
    /\ users[e].lockUntil # Null
    /\ users[e].lockUntil <= now

\* what login does for an account without lock: a wrong password is
\* counted and locks from the 5th on, the right one resets and signs in
C23_AsWithoutLock(e) ==
    IF CarriesPasswordOf(e)
    THEN /\ res'.token # <<>>
         /\ users'[e].loginAttempts = 0
         /\ users'[e].lockUntil = Null
    ELSE /\ res' = Json(401, FALSE, "Invalid credentials")
         /\ users'[e].loginAttempts = users[e].loginAttempts + 1
         /\ users'[e].lockUntil =
               IF users[e].loginAttempts + 1 >= 5
               THEN now + 15 * 60 * 1000 ELSE Null

C23_ExpiredLockIgnored ==
    \A e \in Emails : C23_LoginAfterLock(e) => C23_AsWithoutLock(e)

C23_LockAlwaysInFuture ==
    []C23_StoredLockInFuture /\ [][C23_ExpiredLockIgnored]_vars

\* C23 (amended): a lockUntil is strictly later than the current time when
\* it is written; a stored one can lie in the past, and a login for an
\* account whose lockUntil is not in the future is handled as if it had no
\* lock.
C23_LockWritten(e) ==
    /\ users'[e] # NoUser
    /\ users'[e].lockUntil # Null
    /\ users[e] = NoUser \/ users'[e].lockUntil # users[e].lockUntil

C23_LockInFutureWhenWritten ==
    [][/\ \A e \in Emails : C23_LockWritten(e) => users'[e].lockUntil > now'
       /\ C23_ExpiredLockIgnored]_vars

\* a wrong password after the end of a lock was counted as the 6th failure
\* and has locked the account anew
C23_Witness ==
    /\ req.op = "login"
    /\ res = Json(401, FALSE, "Invalid credentials")
    /\ req.email \in Emails
    /\ users[req.email] # NoUser
    /\ users[req.email].loginAttempts = 6
    /\ users[req.email].lockUntil = now + 15 * 60 * 1000
    /\ now > StartTime

\* C24 (as claimed): every login that comparePassword found wrong is
\* counted, also when logins for the account overlap: loginAttempts is the
\* number of wrong logins since the last right one, and the account holds a
\* lock once 5 of them have been answered.
C24_EveryWrongPasswordCounted ==
    \A e \in Emails :
        users[e] # NoUser /\ wrongRun[e] <= MaxAttempts
        => /\ users[e].loginAttempts = wrongRun[e]
           /\ wrongRun[e] >= 5 => users[e].lockUntil # Null

\* C27 (as claimed): while a lock is running no login clears lockUntil or
\* lowers loginAttempts, whatever it read before the lock was written.
C27_RunningLockKept ==
    [][\A e \in Emails :
          /\ users[e] # NoUser
          /\ users[e].lockUntil # Null
          /\ users[e].lockUntil > now
          => /\ users'[e].lockUntil # Null
             /\ users'[e].lockUntil >= users[e].lockUntil
             /\ users'[e].loginAttempts >= users[e].loginAttempts]_vars

\* C25 (as claimed): a reset-password request with a live token of an
\* account and a new password that passes the rules and was not used
\* before succeeds; it sets the password and puts its hash in front of the
\* history, deletes the token, carries no session token, and leaves every
\* other field of the account (isVerified, loginAttempts, lockUntil among
\* them), every other account and the sessions as they were.
C25_AfterReset(user, hashedPassword) ==
    [user EXCEPT !.password = hashedPassword,
                 !.passwordHistory =
                     <<hashedPassword>> \o
                     SubSeq(user.passwordHistory, 1,
                            IF Len(user.passwordHistory) < 4
                            THEN Len(user.passwordHistory) ELSE 4)]

C25_ResetChangesPasswordOnly ==
    [][\A e \in Emails :
          /\ ResetsPasswordOf(e)
          /\ PasswordRulesPass(req'.password, req'.email)
          /\ PolicyCompliant(e)
          /\ ~UsedBefore(e)
          => /\ res'.success
             /\ res'.token = <<>>
             /\ users' = [users EXCEPT ![e] =
                             C25_AfterReset(@, hashPassword(req'.password))]
             /\ passwordResetTokens'[req'.token] = NoEntry
             /\ session' = session]_vars

\* C26: loginAttempts goes down only by a successful login of the account,
\* not by the passing of time; an account that holds a lockUntil has 5 or
\* more failures counted, and when the lock has run out one more login
\* with a wrong password is counted and locks the account for 15 minutes
\* from that moment
C26_CounterLowered(e) ==
    /\ users[e] # NoUser
    /\ users'[e] # NoUser
    /\ users'[e].loginAttempts < users[e].loginAttempts

C26_LockHasCount ==
    \A e \in Emails :
        users[e] # NoUser /\ users[e].lockUntil # Null
        => users[e].loginAttempts >= 5

C26_WrongLoginAfterLock(e) ==
    /\ C23_LoginAfterLock(e)
    /\ ~CarriesPasswordOf(e)

C26_CounterSurvivesLock ==
    /\ []C26_LockHasCount
    /\ [][\A e \in Emails :
            /\ C26_CounterLowered(e) =>
                  /\ req'.op = "login"
                  /\ req'.email = e
                  /\ res'.token # <<>>
            /\ C26_WrongLoginAfterLock(e) =>
                  /\ users'[e].loginAttempts = users[e].loginAttempts + 1
                  /\ users'[e].lockUntil = now + 900000
                  /\ ~res'.success]_vars

\* an account that never logged in was locked, the lock ran out, and the
\* next wrong password has locked it again with 6 failures counted
C26_Witness ==
    \E e \in Emails :
        /\ users[e] # NoUser
        /\ users[e].lastLogin = Null
        /\ users[e].loginAttempts = 6
        /\ users[e].lockUntil > now
        /\ now >= StartTime + 900000
        /\ req.op = "login"
        /\ req.email = e
        /\ res.status = 401

\* C28 (as claimed): whatever the overlap of register requests for one
\* email, the code otpStore holds for an unverified account is the code of
\* its record (verificationOTP), and once the requests are answered it is
\* the code that was mailed, so the owner can verify.
C28_StoredCodeIsCodeOfRecord ==
    \A e \in Emails :
        users[e] # NoUser /\ ~users[e].isVerified
        => /\ otpStore[e] # NoEntry
           /\ otpStore[e].otp = users[e].verificationOTP
           /\ (\A c \in Connections : inflight[c] = NoFlight)
                 => mailbox[e] = otpStore[e].otp

\* C29 (as claimed): whatever the order or overlap of setup, verify-setup
\* and disable requests, no account has mfaEnabled and mfaSetupPending
\* both set, and while MFA stays enabled for an account its secret and its
\* backup codes are not replaced.
C29_NotEnabledAndPending ==
    \A e \in Emails : ~(mfa[e].mfaEnabled /\ mfa[e].mfaSetupPending)

C29_EnabledMfaKept ==
    \A e \in Emails :
        mfa[e].mfaEnabled /\ mfa'[e].mfaEnabled
        => /\ mfa'[e].mfaSecret = mfa[e].mfaSecret
           /\ mfa'[e].mfaBackupCodes = mfa[e].mfaBackupCodes

C30_HoldsToken(e) ==
    /\ users[e] # NoUser
    /\ users[e].isVerified
    /\ session[e] # NoToken
    /\ verifyToken(session[e]) # NoToken

C30_Accepted(token) ==
    authenticateUser(Credentials(token, NoToken, NoToken)).next

C30_TokenSurvivesPasswordChange ==
    [][\A e \in Emails :
          /\ ResetsPasswordOf(e) \/ ChangesPasswordOf(e)
          /\ C30_HoldsToken(e)
          => /\ session' = session
             /\ C30_Accepted(session[e])']_vars

====
